---- MODULE Spec2Model ----
(***************************************************************************)
(* A model of the cdd compiler (mozihe/cdd): the x86-64 call sequence and  *)
(* function entry of the code generator, the lowering of switch and of the *)
(* logical operators to quadruples, macro expansion, the parser's top      *)
(* level loops, and the preprocessor's conditional and include handling.   *)
(* Each component has its own variables and its own specification; the     *)
(* variables of the other components stay at their idle values.            *)
(***************************************************************************)
EXTENDS Integers, Sequences, FiniteSets, TLC

VARIABLES
    \* ---- code generator (CodeGenerator.cpp) ----
    cgpc,           \* position: "emit", "quads", "callee", "run", "done", "off"
    paramKinds,     \* the callee's parameter types, = the types of the arguments
    pendingParams,  \* Param quadruples not yet translated
    callParams_,    \* CodeGenerator::callParams_ (argument numbers)
    asm,            \* assembly emitted for the calling function
    calleeAsm,      \* assembly emitted for the called function
    locations_,     \* CodeGenerator::locations_ of the callee: parameter -> rbp offset
    ip,             \* run time: <<"caller" | "callee", index of the next instruction>>
    rsp, rbp,       \* run time: stack and frame pointer
    regs,           \* run time: argument registers -> value
    mem,            \* run time: stack memory, address -> value
    rspAtCallSeq,   \* run time: rsp when the call sequence began
    \* ---- IR generator (IRGenerator.cpp) and the execution of its quadruples ----
    irpc,           \* position: "gen", "run", "done", "off"
    stmt,           \* the statement or expression being lowered
    condValue,      \* run time: the value of the switch's controlling variable
    leafValues,     \* run time: what each called function returns
    code,           \* FunctionIR::code
    resultOperand,  \* the operand genExpr returned
    qi,             \* run time: index of the next quadruple
    temps,          \* run time: temporary number -> value
    called,         \* run time: the functions called so far
    dispatched,     \* run time: the labels the dispatch block jumped to
    \* ---- macro expansion (Preprocessor.cpp) ----
    mxpc,           \* position: "start", "expand", "done", "error", "off"
    macros_,        \* Preprocessor::macros_: name -> definition
    input,          \* the line given to expandMacros
    mstack,         \* the activations of expandMacros
    output,         \* the expanded line
    \* ---- parser (Parser.cpp) ----
    pspc,           \* position: "parse", "done", "off"
    tokens,         \* the token kinds the lexer delivers, EndOfFile last
    pos,            \* index of the current token
    errors_,        \* number of entries of Parser::errors_
    depth,          \* open activations of parseCompoundStatement
    \* ---- preprocessor (Preprocessor.cpp) ----
    pppc,           \* position: "start", "run", "ok", "fatal", "off"
    ppError,        \* the message of the exception that ended the run
    content,        \* file -> the lines read from it so far, and whether it has ended
    fstack,         \* the activations of processFile
    conditionStack_,\* Preprocessor::conditionStack_
    loadedFiles_,   \* Preprocessor::loadedFiles_ (paths)
    out,            \* the kinds of the lines written to the output
    lastLine,       \* the line processed last
    processed,      \* file -> how often processFile went on to read it
    opened, closed, \* conditional groups pushed and popped
    branches,       \* history: per open group, the branches that were active
    \* ---- include search path (Preprocessor.cpp, driver) ----
    incpc,          \* position: "options", "system", "quoted", "off"
    envPaths,       \* the entries of CDD_INCLUDE_PATH
    stdlibEnv,      \* CDD_STDLIB_PATH
    existing,       \* the standard-library directories that exist
    userPaths,      \* the -I paths in command-line order
    added,          \* how many of them were passed to addIncludePath
    includePaths_,  \* Preprocessor::includePaths_
    holders,        \* the directories that contain the header
    resolved,       \* the directory resolveIncludePath found it in
    \* ---- lexer (Lexer.cpp) ----
    lxpc,           \* position: "scan", "done", "off"
    source_,        \* Lexer::source_, a sequence of characters
    pos_,           \* Lexer::pos_, counted from 1
    tokenStart_,    \* Lexer::tokenStart_
    lexeme_,        \* Lexer::lexeme_
    dfaCurrent,     \* dfa_.current() when scanToken returned
    lexTokens,      \* the tokens nextToken returned so far
    lexErrors_,     \* number of entries of Lexer::errors_
    \* ---- driver (main.cpp) ----
    drpc,           \* position: "lex", "semantic", "ir", "codegen", "exit", "off"
    mode,           \* the command-line option: "lex", "ast", "semantic", "ir", "asm"
    faults,         \* what is wrong with the input program
    lexerErrors,    \* size of parserLexer.errors()
    parserErrors,   \* size of parser.errors()
    semanticErrors, \* size of analyzer.errors()
    phasesRun,      \* the phases that have run
    exitCode,       \* what main returned, -1 while it runs
    \* ---- break and continue (SemanticAnalyzer.cpp) ----
    jmpc,           \* position: "body", "off"
    nest,           \* the statements analyzeStmt is inside of, the outermost first
    loopDepth_,     \* SemanticAnalyzer::loopDepth_
    switchDepth_,   \* SemanticAnalyzer::switchDepth_
    lastJump,       \* the break or continue analysed last: where, and whether an error
    \* ---- types (Type.cpp) ----
    typc,           \* position: "input", "compared", "common", "off"
    t1, t2,         \* two semantic types
    compatible,     \* areTypesCompatible of the four pairs over t1 and t2
    commonType,     \* what getCommonType(t1, t2) returned
    \* ---- struct layout (SemanticAnalyzer.cpp, Type.h) ----
    rlpc,           \* position: "fields", "done", "off"
    route,          \* "decl": analyzeRecordDecl, "type": resolveAstType
    recordFields,   \* the fields of the struct definition (AST)
    fieldIndex,     \* the field the loop of analyzeRecordDecl is at
    offset_,        \* the local variable offset of analyzeRecordDecl
    st,             \* the StructType under construction
    \* ---- symbol table (SymbolTable.cpp, SymbolTable.h) ----
    allScopes_,     \* the scopes created so far; a scope's id is its place
    currentScope_,  \* the id of the current scope, 0 before construction
    addResult,      \* what the last addSymbol returned
    allocations,    \* history: the calls of allocateLocal that found a function
    \* ---- statements to quadruples (IRGenerator.cpp) ----
    sgpc,           \* position: "analyze", "gen", "done", "rejected", "off"
    funcBody,       \* the statements of the function body
    nextStmt,       \* the statement genCompoundStmt is at
    gen,            \* the generator: code, counters, target stacks, and a log
    \* ---- float pool (CodeGenerator.cpp) ----
    fppc,           \* position: "quads", "done", "off"
    floatLiterals_, \* CodeGenerator::floatLiterals_: the entries (key, label)
    floatLabelCounter_, \* CodeGenerator::floatLabelCounter_
    labelsGiven,    \* history: the constants asked for and the labels returned
    maskLabel,      \* the label translateFloatNeg used last, "" if none
    rodataSection_, \* what emitFloatLiterals wrote: (label, .quad pattern)
    \* ---- stack slots of a function (CodeGenerator.cpp) ----
    frpc,           \* position: "params", "quads", "off"
    localOffset_,   \* CodeGenerator::localOffset_
    slots,          \* the stack entries of locations_: name, offset, size
    lastLocation,   \* the offset getLocation returned last
    \* ---- register allocation while quadruples are translated (CodeGenerator.cpp) ----
    rapc,           \* position: "idle" between quadruples, "busy" inside a routine, "off"
    regAlloc_,      \* CodeGenerator::regAlloc_: available_ and used_
    xmmAlloc_,      \* CodeGenerator::xmmAlloc_: available_ and used_
    quadNow,        \* the quadruple translateQuad was called with last
    todo,           \* the statements of its routine that are still to run
    held,           \* the register each local variable of the routine holds
    raxLive,        \* the values that are in RAX and still needed
    quadsDone       \* number of quadruples translated

cgVars == <<cgpc, paramKinds, pendingParams, callParams_, asm, calleeAsm,
            locations_, ip, rsp, rbp, regs, mem, rspAtCallSeq>>

irVars == <<irpc, stmt, condValue, leafValues, code, resultOperand, qi, temps, called,
            dispatched>>

mxVars == <<mxpc, macros_, input, mstack, output>>

psVars == <<pspc, tokens, pos, errors_, depth>>

ppVars == <<pppc, ppError, content, fstack, conditionStack_, loadedFiles_, out, lastLine,
            processed, opened, closed, branches>>

incVars == <<incpc, envPaths, stdlibEnv, existing, userPaths, added, includePaths_, holders,
             resolved>>

lxVars == <<lxpc, source_, pos_, tokenStart_, lexeme_, dfaCurrent, lexTokens, lexErrors_>>

drVars == <<drpc, mode, faults, lexerErrors, parserErrors, semanticErrors, phasesRun, exitCode>>

jmVars == <<jmpc, nest, loopDepth_, switchDepth_, lastJump>>

tyVars == <<typc, t1, t2, compatible, commonType>>

rlVars == <<rlpc, route, recordFields, fieldIndex, offset_, st>>

syVars == <<allScopes_, currentScope_, addResult, allocations>>

sgVars == <<sgpc, funcBody, nextStmt, gen>>

fpVars == <<fppc, floatLiterals_, floatLabelCounter_, labelsGiven, maskLabel, rodataSection_>>

frVars == <<frpc, localOffset_, slots, lastLocation>>

raVars == <<rapc, regAlloc_, xmmAlloc_, quadNow, todo, held, raxLive, quadsDone>>

vars == <<cgVars, irVars, mxVars, psVars, ppVars, incVars, lxVars, drVars, jmVars, tyVars, rlVars, syVars, sgVars, fpVars, frVars, raVars>>

----------------------------------------------------------------------------
(* Helpers *)

RECURSIVE Reverse(_)
Reverse(s) == IF s = <<>> THEN <<>> ELSE Append(Reverse(Tail(s)), Head(s))

RECURSIVE SeqsUpTo(_, _)
SeqsUpTo(S, n) ==
    IF n = 0 THEN {<<>>}
    ELSE LET shorter == SeqsUpTo(S, n - 1)
         IN  shorter \cup {Append(s, x) : s \in {t \in shorter : Len(t) = n - 1}, x \in S}

----------------------------------------------------------------------------
(* Code generator: emitPrologue, emitFunction, translateParam,             *)
(* translateCall, emitEpilogue, and the execution of what they emit.       *)
(* A value is the number of the source argument it is (1, 2, ...), or 0    *)
(* for anything else (a saved register, a return address).                 *)

MaxParams == 10
StackReserve == 1024
CalleeSavedBytes == 40
StackParamStart == 16

Kinds == {"int", "float"}
IntParamRegs == <<"rdi", "rsi", "rdx", "rcx", "r8", "r9">>
FloatParamRegs == <<"xmm0", "xmm1", "xmm2", "xmm3", "xmm4", "xmm5", "xmm6", "xmm7">>
CalleeSaved == <<"rbx", "r12", "r13", "r14", "r15">>
ArgRegs == {IntParamRegs[i] : i \in 1..Len(IntParamRegs)}
              \cup {FloatParamRegs[i] : i \in 1..Len(FloatParamRegs)}

\* rsp just after the caller's call instruction: 8 modulo 16
EntryRsps == {512 * 16 + 8, 513 * 16 + 8}

Ins(op, reg, n) == [op |-> op, reg |-> reg, n |-> n]

getTypeSize(kind) == IF kind = "int" THEN 4 ELSE 8

allocateStack(localOffset, size, align) ==
    LET lo == localOffset - size
    IN  IF lo < 0 THEN 0 - ((((0 - lo) + align - 1) \div align) * align)
        ELSE (lo \div align) * align

emitPrologue ==
    <<Ins("pushq", "rbp", 0), Ins("movq_rsp_rbp", "", 0)>>
    \o [i \in 1..Len(CalleeSaved) |-> Ins("pushq", CalleeSaved[i], 0)]
    \o <<Ins("subq", "rsp", ((StackReserve + 15) \div 16) * 16)>>

emitEpilogue ==
    <<Ins("leaq_rbp_rsp", "", 0 - CalleeSavedBytes)>>
    \o [i \in 1..Len(CalleeSaved) |-> Ins("popq", CalleeSaved[Len(CalleeSaved) + 1 - i], 0)]
    \o <<Ins("popq", "rbp", 0), Ins("ret", "", 0)>>

\* emitFunction's parameter loop: the entry code and locations_
RECURSIVE ParamLoop(_, _, _, _, _, _, _)
ParamLoop(kinds, i, intParamIdx, floatParamIdx, stackParamOffset, localOffset, acc) ==
    IF i > Len(kinds) THEN acc
    ELSE LET isFloat == kinds[i] = "float"
             off == allocateStack(localOffset, getTypeSize(kinds[i]), 8)
         IN  IF isFloat /\ floatParamIdx < Len(FloatParamRegs)
             THEN ParamLoop(kinds, i + 1, intParamIdx, floatParamIdx + 1, stackParamOffset, off,
                      [code |-> Append(acc.code, Ins("spill", FloatParamRegs[floatParamIdx + 1], off)),
                       locs |-> Append(acc.locs, off)])
             ELSE IF ~isFloat /\ intParamIdx < Len(IntParamRegs)
             THEN ParamLoop(kinds, i + 1, intParamIdx + 1, floatParamIdx, stackParamOffset, off,
                      [code |-> Append(acc.code, Ins("spill", IntParamRegs[intParamIdx + 1], off)),
                       locs |-> Append(acc.locs, off)])
             ELSE ParamLoop(kinds, i + 1, intParamIdx, floatParamIdx, stackParamOffset + 8, localOffset,
                      [code |-> acc.code, locs |-> Append(acc.locs, stackParamOffset)])

emitFunctionParams(kinds) ==
    ParamLoop(kinds, 1, 0, 0, StackParamStart, 0 - CalleeSavedBytes, [code |-> <<>>, locs |-> <<>>])

\* translateCall step 2: the indices (into callParams_) of the stack arguments
RECURSIVE ClassifyLoop(_, _, _, _, _, _)
ClassifyLoop(params, kinds, i, intParamCount, floatParamCount, stackParamIndices) ==
    IF i > Len(params) THEN stackParamIndices
    ELSE IF kinds[params[i]] = "float"
         THEN IF floatParamCount < Len(FloatParamRegs)
              THEN ClassifyLoop(params, kinds, i + 1, intParamCount, floatParamCount + 1, stackParamIndices)
              ELSE ClassifyLoop(params, kinds, i + 1, intParamCount, floatParamCount, Append(stackParamIndices, i))
         ELSE IF intParamCount < Len(IntParamRegs)
              THEN ClassifyLoop(params, kinds, i + 1, intParamCount + 1, floatParamCount, stackParamIndices)
              ELSE ClassifyLoop(params, kinds, i + 1, intParamCount, floatParamCount, Append(stackParamIndices, i))

PushOrderLeftToRight(stackParamIndices) == stackParamIndices

\* translateCall step 4: the stack arguments are pushed from the last to the first
PushOrder(stackParamIndices) == Reverse(stackParamIndices)

RECURSIVE PushLoop(_, _, _)
PushLoop(params, kinds, order) ==
    IF order = <<>> THEN <<>>
    ELSE LET arg == params[Head(order)]
         IN  (IF kinds[arg] = "float"
              THEN <<Ins("subq", "rsp", 8), Ins("movsd_to_rsp", "", arg)>>
              ELSE <<Ins("pusharg", "", arg)>>)
             \o PushLoop(params, kinds, Tail(order))

\* translateCall step 5: the register arguments
RECURSIVE RegLoop(_, _, _, _, _)
RegLoop(params, kinds, i, intIdx, floatIdx) ==
    IF i > Len(params) THEN <<Ins("movl_eax", "", floatIdx)>>
    ELSE LET isFloat == kinds[params[i]] = "float"
         IN  IF isFloat /\ floatIdx < Len(FloatParamRegs)
             THEN <<Ins("loadreg", FloatParamRegs[floatIdx + 1], params[i])>>
                  \o RegLoop(params, kinds, i + 1, intIdx, floatIdx + 1)
             ELSE IF ~isFloat /\ intIdx < Len(IntParamRegs)
             THEN <<Ins("loadreg", IntParamRegs[intIdx + 1], params[i])>>
                  \o RegLoop(params, kinds, i + 1, intIdx + 1, floatIdx)
             ELSE RegLoop(params, kinds, i + 1, intIdx, floatIdx)

\* translateCall step 3: the padding before the pushes
AlignPad(stackParamNum) == IF stackParamNum % 2 # 0 THEN <<Ins("subq", "rsp", 8)>> ELSE <<>>

\* a cleanup that forgets the padding
CleanupWithoutPad(stackParamNum) ==
    IF stackParamNum > 0 THEN <<Ins("addq", "rsp", stackParamNum * 8)>> ELSE <<>>

\* translateCall step 7: the bytes given back after the call
Cleanup(stackParamNum) ==
    IF stackParamNum > 0
    THEN <<Ins("addq", "rsp", stackParamNum * 8 + (IF stackParamNum % 2 # 0 THEN 8 ELSE 0))>>
    ELSE <<>>

translateCallCode(accumulated, kinds) ==
    LET params == Reverse(accumulated)
        stackParamIndices == ClassifyLoop(params, kinds, 1, 0, 0, <<>>)
        stackParamNum == Len(stackParamIndices)
    IN  <<Ins("callseq", "", 0)>>
        \o AlignPad(stackParamNum)
        \o PushLoop(params, kinds, PushOrder(stackParamIndices))
        \o RegLoop(params, kinds, 1, 0, 0)
        \o <<Ins("call", "", 0)>>
        \o Cleanup(stackParamNum)
        \o <<Ins("callend", "", 0)>>

CgInit ==
    /\ cgpc = "emit"
    /\ paramKinds \in SeqsUpTo(Kinds, MaxParams)
    /\ pendingParams = Len(paramKinds)
    /\ callParams_ = <<>>
    /\ asm = <<>>
    /\ calleeAsm = <<>>
    /\ locations_ = <<>>
    /\ ip = <<"caller", 1>>
    /\ rsp \in EntryRsps
    /\ rbp = 0
    /\ regs = [r \in ArgRegs |-> 0]
    /\ mem = <<>>
    /\ rspAtCallSeq = 0

CgOff ==
    /\ cgpc = "off"
    /\ paramKinds = <<>>
    /\ pendingParams = 0
    /\ callParams_ = <<>>
    /\ asm = <<>>
    /\ calleeAsm = <<>>
    /\ locations_ = <<>>
    /\ ip = <<"caller", 1>>
    /\ rsp = 0
    /\ rbp = 0
    /\ regs = <<>>
    /\ mem = <<>>
    /\ rspAtCallSeq = 0

\* emitFunction of the calling function, up to its first quadruple
EmitCaller ==
    /\ cgpc = "emit"
    /\ asm' = emitPrologue
    /\ cgpc' = "quads"
    /\ UNCHANGED <<paramKinds, pendingParams, callParams_, calleeAsm, locations_, ip, rsp, rbp,
                   regs, mem, rspAtCallSeq>>

\* translateParam: genCallExpr emits the Param quadruples last argument first
translateParam ==
    /\ cgpc = "quads"
    /\ pendingParams > 0
    /\ callParams_' = Append(callParams_, pendingParams)
    /\ pendingParams' = pendingParams - 1
    /\ UNCHANGED <<cgpc, paramKinds, asm, calleeAsm, locations_, ip, rsp, rbp, regs, mem,
                   rspAtCallSeq>>

translateCall ==
    /\ cgpc = "quads"
    /\ pendingParams = 0
    /\ asm' = asm \o translateCallCode(callParams_, paramKinds)
    /\ callParams_' = <<>>
    /\ cgpc' = "callee"
    /\ UNCHANGED <<paramKinds, pendingParams, calleeAsm, locations_, ip, rsp, rbp, regs, mem,
                   rspAtCallSeq>>

\* emitFunction of the called function (its body left empty)
EmitCallee ==
    /\ cgpc = "callee"
    /\ LET entry == emitFunctionParams(paramKinds)
       IN  /\ calleeAsm' = emitPrologue \o entry.code \o <<Ins("body", "", 0)>> \o emitEpilogue
           /\ locations_' = entry.locs
    /\ cgpc' = "run"
    /\ UNCHANGED <<paramKinds, pendingParams, callParams_, asm, ip, rsp, rbp, regs, mem,
                   rspAtCallSeq>>

----------------------------------------------------------------------------
(* Execution of the emitted instructions *)

CurCode == IF ip[1] = "caller" THEN asm ELSE calleeAsm
Running == cgpc = "run" /\ ip[2] <= Len(CurCode)
Cur == CurCode[ip[2]]
NextIp == <<ip[1], ip[2] + 1>>
Store(addr, v) == [a \in (DOMAIN mem) \cup {addr} |-> IF a = addr THEN v ELSE mem[a]]
ExecFrame == <<cgpc, paramKinds, pendingParams, callParams_, asm, calleeAsm, locations_>>

ExecPush ==
    /\ Running /\ Cur.op \in {"pushq", "pusharg"}
    /\ rsp' = rsp - 8
    /\ mem' = Store(rsp - 8, Cur.n)
    /\ ip' = NextIp
    /\ UNCHANGED <<ExecFrame, rbp, regs, rspAtCallSeq>>

ExecPop ==
    /\ Running /\ Cur.op = "popq"
    /\ rsp' = rsp + 8
    /\ rbp' = IF Cur.reg = "rbp" THEN mem[rsp] ELSE rbp
    /\ ip' = NextIp
    /\ UNCHANGED <<ExecFrame, regs, mem, rspAtCallSeq>>

ExecMovRspRbp ==
    /\ Running /\ Cur.op = "movq_rsp_rbp"
    /\ rbp' = rsp
    /\ ip' = NextIp
    /\ UNCHANGED <<ExecFrame, rsp, regs, mem, rspAtCallSeq>>

ExecLea ==
    /\ Running /\ Cur.op = "leaq_rbp_rsp"
    /\ rsp' = rbp + Cur.n
    /\ ip' = NextIp
    /\ UNCHANGED <<ExecFrame, rbp, regs, mem, rspAtCallSeq>>

ExecSub ==
    /\ Running /\ Cur.op = "subq"
    /\ rsp' = rsp - Cur.n
    /\ ip' = NextIp
    /\ UNCHANGED <<ExecFrame, rbp, regs, mem, rspAtCallSeq>>

ExecAdd ==
    /\ Running /\ Cur.op = "addq"
    /\ rsp' = rsp + Cur.n
    /\ ip' = NextIp
    /\ UNCHANGED <<ExecFrame, rbp, regs, mem, rspAtCallSeq>>

ExecMovsdToRsp ==
    /\ Running /\ Cur.op = "movsd_to_rsp"
    /\ mem' = Store(rsp, Cur.n)
    /\ ip' = NextIp
    /\ UNCHANGED <<ExecFrame, rsp, rbp, regs, rspAtCallSeq>>

ExecLoadReg ==
    /\ Running /\ Cur.op = "loadreg"
    /\ regs' = [regs EXCEPT ![Cur.reg] = Cur.n]
    /\ ip' = NextIp
    /\ UNCHANGED <<ExecFrame, rsp, rbp, mem, rspAtCallSeq>>

ExecSpill ==
    /\ Running /\ Cur.op = "spill"
    /\ mem' = Store(rbp + Cur.n, regs[Cur.reg])
    /\ ip' = NextIp
    /\ UNCHANGED <<ExecFrame, rsp, rbp, regs, rspAtCallSeq>>

\* the markers around a call sequence, the callee's (empty) body, movl to eax
ExecMark ==
    /\ Running /\ Cur.op \in {"callseq", "callend", "body", "movl_eax"}
    /\ rspAtCallSeq' = IF Cur.op = "callseq" THEN rsp ELSE rspAtCallSeq
    /\ ip' = NextIp
    /\ UNCHANGED <<ExecFrame, rsp, rbp, regs, mem>>

ExecCall ==
    /\ Running /\ Cur.op = "call"
    /\ rsp' = rsp - 8
    /\ mem' = Store(rsp - 8, 0 - (ip[2] + 1))
    /\ ip' = <<"callee", 1>>
    /\ UNCHANGED <<ExecFrame, rbp, regs, rspAtCallSeq>>

ExecRet ==
    /\ Running /\ Cur.op = "ret"
    /\ rsp' = rsp + 8
    /\ ip' = <<"caller", 0 - mem[rsp]>>
    /\ UNCHANGED <<ExecFrame, rbp, regs, mem, rspAtCallSeq>>

ExecEnd ==
    /\ cgpc = "run" /\ ip[2] > Len(CurCode)
    /\ cgpc' = "done"
    /\ UNCHANGED <<paramKinds, pendingParams, callParams_, asm, calleeAsm, locations_, ip, rsp,
                   rbp, regs, mem, rspAtCallSeq>>

----------------------------------------------------------------------------
(* IR generator: newLabel, newTemp, emit, genCallExpr, genLogicalAnd,      *)
(* genLogicalOr, genSwitchStmt, genCaseStmt, genDefaultStmt, genBreakStmt. *)
(* The generator state g is [code, labelCounter_, tempCounter_].           *)
(* Expressions are tuples: <<"CallExpr", f>>, <<"LogicalAnd", l, r>>,      *)
(* <<"LogicalOr", l, r>>, <<"IntLiteral", v>>, <<"CharLiteral", v>>,       *)
(* <<"UnaryExpr", op, e>>.                                                 *)

MaxLeaves == 4
MaxCases == 3

Lbl(prefix, n) == [k |-> "label", s |-> prefix, v |-> n]
Tmp(n) == [k |-> "temp", s |-> "t", v |-> n]
IntConst(v) == [k |-> "int", s |-> "", v |-> v]
Variable(name) == [k |-> "var", s |-> name, v |-> 0]
NoOperand == [k |-> "none", s |-> "", v |-> 0]

emit(g, op, result, arg1, arg2) ==
    [g EXCEPT !.code = Append(@, [op |-> op, result |-> result, arg1 |-> arg1, arg2 |-> arg2])]
emitLabel(g, label) == emit(g, "Label", label, NoOperand, NoOperand)
emitJump(g, label) == emit(g, "Jump", label, NoOperand, NoOperand)
emitJumpTrue(g, cond, label) == emit(g, "JumpTrue", label, cond, NoOperand)
emitJumpFalse(g, cond, label) == emit(g, "JumpFalse", label, cond, NoOperand)

RECURSIVE genExpr(_, _)

genIntLiteral(e, g) == [g |-> g, op |-> IntConst(e[2])]

\* genCallExpr, first loop: the arguments are generated in source order and
\* their operands collected
RECURSIVE genArgs(_, _)
genArgs(arguments, g) ==
    IF arguments = <<>>
    THEN [g |-> g, operands |-> <<>>]
    ELSE LET before == genArgs(SubSeq(arguments, 1, Len(arguments) - 1), g)
             last == genExpr(arguments[Len(arguments)], before.g)
         IN  [g |-> last.g, operands |-> Append(before.operands, last.op)]

\* genCallExpr, second loop: one Param per operand, from args.rbegin() on
RECURSIVE emitParams(_, _)
emitParams(operands, g) ==
    IF operands = <<>>
    THEN g
    ELSE emitParams(SubSeq(operands, 1, Len(operands) - 1),
                    emit(g, "Param", NoOperand, operands[Len(operands)], NoOperand))

\* a call <<"CallExpr", calleeExpr, arguments>>; <<"CallExpr", f>> is the
\* call f() of a function by its name.  The callee is a Label for the name
\* of a function and is generated, after the Params, for any other
\* expression; the result is a fresh temporary.
genCallExpr(e, g) ==
    LET byName == Len(e) = 2
        evaluated == genArgs(IF byName THEN <<>> ELSE e[3], g)
        g1 == emitParams(evaluated.operands, evaluated.g)
        target == IF byName THEN [g |-> g1, op |-> Lbl("f", e[2])]
                  ELSE IF e[2][1] = "IdentExpr" THEN [g |-> g1, op |-> Lbl("f", e[2][2])]
                  ELSE genExpr(e[2], g1)
        result == Tmp(target.g.tempCounter_)
    IN  [g  |-> emit([target.g EXCEPT !.tempCounter_ = @ + 1], "Call", result, target.op,
                     IntConst(Len(evaluated.operands))),
         op |-> result]

genLogicalAnd(e, g) ==
    LET falseLabel == Lbl("and_false", g.labelCounter_)
        endLabel == Lbl("and_end", g.labelCounter_ + 1)
        result == Tmp(g.tempCounter_)
        left == genExpr(e[2], [g EXCEPT !.labelCounter_ = @ + 2, !.tempCounter_ = @ + 1])
        right == genExpr(e[3], emitJumpFalse(left.g, left.op, falseLabel))
        g1 == emitJumpFalse(right.g, right.op, falseLabel)
        g2 == emitJump(emit(g1, "Assign", result, IntConst(1), NoOperand), endLabel)
        g3 == emit(emitLabel(g2, falseLabel), "Assign", result, IntConst(0), NoOperand)
    IN  [g |-> emitLabel(g3, endLabel), op |-> result]

\* a lowering that evaluates both operands before it tests them
genLogicalOrEager(e, g) ==
    LET trueLabel == Lbl("or_true", g.labelCounter_)
        endLabel == Lbl("or_end", g.labelCounter_ + 1)
        result == Tmp(g.tempCounter_)
        left == genExpr(e[2], [g EXCEPT !.labelCounter_ = @ + 2, !.tempCounter_ = @ + 1])
        right == genExpr(e[3], left.g)
        g1 == emitJumpTrue(emitJumpTrue(right.g, left.op, trueLabel), right.op, trueLabel)
        g2 == emitJump(emit(g1, "Assign", result, IntConst(0), NoOperand), endLabel)
        g3 == emit(emitLabel(g2, trueLabel), "Assign", result, IntConst(1), NoOperand)
    IN  [g |-> emitLabel(g3, endLabel), op |-> result]

genLogicalOr(e, g) ==
    LET trueLabel == Lbl("or_true", g.labelCounter_)
        endLabel == Lbl("or_end", g.labelCounter_ + 1)
        result == Tmp(g.tempCounter_)
        left == genExpr(e[2], [g EXCEPT !.labelCounter_ = @ + 2, !.tempCounter_ = @ + 1])
        right == genExpr(e[3], emitJumpTrue(left.g, left.op, trueLabel))
        g1 == emitJumpTrue(right.g, right.op, trueLabel)
        g2 == emitJump(emit(g1, "Assign", result, IntConst(0), NoOperand), endLabel)
        g3 == emit(emitLabel(g2, trueLabel), "Assign", result, IntConst(1), NoOperand)
    IN  [g |-> emitLabel(g3, endLabel), op |-> result]

genExpr(e, g) ==
    IF e[1] = "LogicalAnd" THEN genLogicalAnd(e, g)
    ELSE IF e[1] = "LogicalOr" THEN genLogicalOr(e, g)
    ELSE IF e[1] = "IntLiteral" THEN genIntLiteral(e, g)
    ELSE genCallExpr(e, g)

\* genCaseStmt reads the label's value from an integer or character literal only
caseValue(value) ==
    IF value[1] = "IntLiteral" THEN value[2]
    ELSE IF value[1] = "CharLiteral" THEN value[2]
    ELSE 0

\* SemanticAnalyzer::evaluateConstantExpr on literals and unary operators
RECURSIVE evaluateConstantExpr(_)
evaluateConstantExpr(e) ==
    IF e[1] \in {"IntLiteral", "CharLiteral"} THEN e[2]
    ELSE IF e[2] = "Minus" THEN 0 - evaluateConstantExpr(e[3])
    ELSE evaluateConstantExpr(e[3])

\* the statement under a case or default label: a call, and a break if the item has one
genItemBody(item, i, g, info) ==
    LET g1 == emit(g, "Call", NoOperand, Lbl("body", i), IntConst(0))
    IN  IF item.brk THEN emitJump(g1, info.endLabel) ELSE g1

genCaseStmt(item, i, g, info) ==
    LET caseLabel == Lbl("case", g.labelCounter_)
        g1 == emitLabel([g EXCEPT !.labelCounter_ = @ + 1], caseLabel)
        info1 == [info EXCEPT !.cases = Append(@, <<caseValue(item.value), caseLabel>>)]
    IN  [g |-> genItemBody(item, i, g1, info1), info |-> info1]

genDefaultStmt(item, i, g, info) ==
    LET defaultLabel == Lbl("default", g.labelCounter_)
        g1 == emitLabel([g EXCEPT !.labelCounter_ = @ + 1], defaultLabel)
        info1 == [info EXCEPT !.defaultLabel = defaultLabel]
    IN  [g |-> genItemBody(item, i, g1, info1), info |-> info1]

\* genCompoundStmt over the switch body
RECURSIVE genSwitchBody(_, _, _, _)
genSwitchBody(items, i, g, info) ==
    IF i > Len(items) THEN [g |-> g, info |-> info]
    ELSE LET r == IF items[i].kind = "case" THEN genCaseStmt(items[i], i, g, info)
                  ELSE genDefaultStmt(items[i], i, g, info)
         IN  genSwitchBody(items, i + 1, r.g, r.info)

\* the dispatch block: one Eq and one JumpTrue per recorded case
RECURSIVE genSwitchTable(_, _, _, _)
genSwitchTable(cases, i, condVal, g) ==
    IF i > Len(cases) THEN g
    ELSE LET cmp == Tmp(g.tempCounter_)
             g1 == emit([g EXCEPT !.tempCounter_ = @ + 1], "Eq", cmp, condVal, IntConst(cases[i][1]))
         IN  genSwitchTable(cases, i + 1, condVal, emitJumpTrue(g1, cmp, cases[i][2]))

genSwitchStmt(s, g) ==
    LET condVal == s.condition
        endLabel == Lbl("endswitch", g.labelCounter_)
        info == [cases |-> <<>>, endLabel |-> endLabel, defaultLabel |-> endLabel]
        bodyLabel == Lbl("switchbody", g.labelCounter_ + 1)
        tableLabel == Lbl("switchtable", g.labelCounter_ + 2)
        g1 == emitLabel(emitJump([g EXCEPT !.labelCounter_ = @ + 3], tableLabel), bodyLabel)
        body == genSwitchBody(s.items, 1, g1, info)
        g2 == emitLabel(emitJump(body.g, endLabel), tableLabel)
        g3 == genSwitchTable(body.info.cases, 1, condVal, g2)
    IN  emitLabel(emitJump(g3, body.info.defaultLabel), endLabel)

NewGenerator == [code |-> <<>>, labelCounter_ |-> 0, tempCounter_ |-> 0]

\* ---- the programs lowered ----

\* expressions over calls f1(), f2(), ... numbered from b in source order
RECURSIVE LogicalExprs(_, _)
LogicalExprs(n, b) ==
    IF n = 1 THEN {<<"CallExpr", b>>}
    ELSE UNION {{<<op, l, r>> : op \in {"LogicalAnd", "LogicalOr"},
                                l \in LogicalExprs(i, b), r \in LogicalExprs(n - i, b + i)}
                : i \in 1..(n - 1)}

LeafValueSet == {0, 2}

CaseExprs == {<<"IntLiteral", 0>>, <<"IntLiteral", 1>>, <<"IntLiteral", 2>>,
              <<"CharLiteral", 97>>, <<"UnaryExpr", "Minus", <<"IntLiteral", 1>>>>}
CondValues == {0 - 1, 0, 1, 2, 3, 97}

\* case lists with pairwise distinct label values
CaseLists ==
    {cs \in SeqsUpTo(CaseExprs, MaxCases) :
        \A i, j \in 1..Len(cs) :
            i # j => evaluateConstantExpr(cs[i]) # evaluateConstantExpr(cs[j])}

\* the body of a switch: the cases in order, a default before case number defaultAt
\* (none when defaultAt = 0), every item ending in break or none
SwitchItems(cs, defaultAt, brk) ==
    LET caseItem(i) == [kind |-> "case", value |-> cs[i], brk |-> brk]
        defaultItem == [kind |-> "default", value |-> <<"IntLiteral", 0>>, brk |-> brk]
        n == Len(cs)
    IN  IF defaultAt = 0 THEN [i \in 1..n |-> caseItem(i)]
        ELSE [i \in 1..(n + 1) |->
                 IF i < defaultAt THEN caseItem(i)
                 ELSE IF i = defaultAt THEN defaultItem
                 ELSE caseItem(i - 1)]

MaxArgs == 3

\* arguments: literals, a call without arguments, a call with one
ArgExprs ==
    {<<"IntLiteral", 1>>, <<"IntLiteral", 2>>,
     <<"CallExpr", <<"IdentExpr", 1>>, <<>>>>,
     <<"CallExpr", <<"IdentExpr", 2>>, <<<<"IntLiteral", 3>>>>>>}

\* callees: the name of a function, a call that returns a function pointer
CalleeExprs ==
    {<<"IdentExpr", 3>>, <<"CallExpr", <<"IdentExpr", 4>>, <<<<"IntLiteral", 7>>>>>>}

CallExprs ==
    {<<"CallExpr", c, arguments>> : c \in CalleeExprs, arguments \in SeqsUpTo(ArgExprs, MaxArgs)}

IrOff ==
    /\ irpc = "off"
    /\ stmt = <<>>
    /\ condValue = 0
    /\ leafValues = <<>>
    /\ code = <<>>
    /\ resultOperand = NoOperand
    /\ qi = 1
    /\ temps = <<>>
    /\ called = {}
    /\ dispatched = <<>>

IrInitLogic ==
    /\ irpc = "gen"
    /\ \E n \in 1..MaxLeaves :
          /\ stmt \in LogicalExprs(n, 1)
          /\ leafValues \in [1..n -> LeafValueSet]
    /\ condValue = 0
    /\ code = <<>>
    /\ resultOperand = NoOperand
    /\ qi = 1
    /\ temps = <<>>
    /\ called = {}
    /\ dispatched = <<>>

IrInitSwitch ==
    /\ irpc = "gen"
    /\ \E cs \in CaseLists : \E defaultAt \in 0..(Len(cs) + 1) : \E brk \in BOOLEAN :
          stmt = [condition |-> Variable("x"), items |-> SwitchItems(cs, defaultAt, brk)]
    /\ condValue \in CondValues
    /\ leafValues = <<>>
    /\ code = <<>>
    /\ resultOperand = NoOperand
    /\ qi = 1
    /\ temps = <<>>
    /\ called = {}
    /\ dispatched = <<>>

IrInitCallExpr ==
    /\ irpc = "gen"
    /\ stmt \in CallExprs
    /\ condValue = 0
    /\ leafValues = <<>>
    /\ code = <<>>
    /\ resultOperand = NoOperand
    /\ qi = 1
    /\ temps = <<>>
    /\ called = {}
    /\ dispatched = <<>>

\* genExprStmt on a call
GenCallExpr ==
    /\ irpc = "gen"
    /\ LET r == genCallExpr(stmt, NewGenerator)
       IN  /\ code' = r.g.code
           /\ resultOperand' = r.op
    /\ irpc' = "run"
    /\ UNCHANGED <<stmt, condValue, leafValues, qi, temps, called, dispatched>>

GenLogical ==
    /\ irpc = "gen"
    /\ LET r == genExpr(stmt, NewGenerator)
       IN  /\ code' = r.g.code
           /\ resultOperand' = r.op
    /\ irpc' = "run"
    /\ UNCHANGED <<stmt, condValue, leafValues, qi, temps, called, dispatched>>

GenSwitch ==
    /\ irpc = "gen"
    /\ code' = genSwitchStmt(stmt, NewGenerator).code
    /\ irpc' = "run"
    /\ UNCHANGED <<stmt, condValue, leafValues, resultOperand, qi, temps, called, dispatched>>

\* ---- execution of the quadruples ----

Q == code[qi]
IrRunning == irpc = "run" /\ qi <= Len(code)
Value(operand) ==
    IF operand.k = "int" THEN operand.v
    ELSE IF operand.k = "var" THEN condValue
    ELSE temps[operand.v]
SetTemp(t, v) == [n \in (DOMAIN temps) \cup {t.v} |-> IF n = t.v THEN v ELSE temps[n]]
LabelIndex(label) == CHOOSE i \in 1..Len(code) : code[i].op = "Label" /\ code[i].result = label
InDispatch == \E i \in 1..qi : code[i].op = "Label" /\ code[i].result.s = "switchtable"
JumpTo(label) ==
    /\ qi' = LabelIndex(label)
    /\ dispatched' = IF InDispatch THEN Append(dispatched, label) ELSE dispatched
IrFrame == <<irpc, stmt, condValue, leafValues, code, resultOperand>>

ExecQuadCall ==
    /\ IrRunning /\ Q.op = "Call"
    /\ called' = called \cup {Q.arg1.v}
    /\ temps' = IF Q.result.k = "temp" THEN SetTemp(Q.result, leafValues[Q.arg1.v]) ELSE temps
    /\ qi' = qi + 1
    /\ UNCHANGED <<IrFrame, dispatched>>

ExecQuadAssign ==
    /\ IrRunning /\ Q.op = "Assign"
    /\ temps' = SetTemp(Q.result, Value(Q.arg1))
    /\ qi' = qi + 1
    /\ UNCHANGED <<IrFrame, called, dispatched>>

ExecQuadEq ==
    /\ IrRunning /\ Q.op = "Eq"
    /\ temps' = SetTemp(Q.result, IF Value(Q.arg1) = Value(Q.arg2) THEN 1 ELSE 0)
    /\ qi' = qi + 1
    /\ UNCHANGED <<IrFrame, called, dispatched>>

ExecQuadLabel ==
    /\ IrRunning /\ Q.op = "Label"
    /\ qi' = qi + 1
    /\ UNCHANGED <<IrFrame, temps, called, dispatched>>

ExecQuadJump ==
    /\ IrRunning /\ Q.op = "Jump"
    /\ JumpTo(Q.result)
    /\ UNCHANGED <<IrFrame, temps, called>>

ExecQuadJumpTrue ==
    /\ IrRunning /\ Q.op = "JumpTrue"
    /\ IF Value(Q.arg1) # 0 THEN JumpTo(Q.result)
       ELSE qi' = qi + 1 /\ dispatched' = dispatched
    /\ UNCHANGED <<IrFrame, temps, called>>

ExecQuadJumpFalse ==
    /\ IrRunning /\ Q.op = "JumpFalse"
    /\ IF Value(Q.arg1) = 0 THEN JumpTo(Q.result)
       ELSE qi' = qi + 1 /\ dispatched' = dispatched
    /\ UNCHANGED <<IrFrame, temps, called>>

ExecQuadEnd ==
    /\ irpc = "run" /\ qi > Len(code)
    /\ irpc' = "done"
    /\ UNCHANGED <<stmt, condValue, leafValues, code, resultOperand, qi, temps, called, dispatched>>

----------------------------------------------------------------------------
(* Macro expansion: Preprocessor::expandMacros, parseMacroArgs and         *)
(* substituteArgs.  A line is a sequence of tokens (identifiers, "(", ")", *)
(* ",", "1", and the quotes that delimit string and character literals);   *)
(* white space, backslashes and the # and ## operators do not occur in the *)
(* lines drawn here, and no macro body holds a quote.  expandMacros is     *)
(* recursive: mstack holds its activations, the innermost last.  Each      *)
(* activation keeps the line and the forbidden set it was called with, its *)
(* scan position i and its result so far.                                  *)

MaxDepth == 6

MacroNames == {"A", "B", "F", "G"}

Undefined == [defined |-> FALSE, isFunctionLike |-> FALSE, params |-> <<>>, body |-> <<>>]
ObjectLike(body) ==
    [defined |-> TRUE, isFunctionLike |-> FALSE, params |-> <<>>, body |-> body]
FunctionLike(body) ==
    [defined |-> TRUE, isFunctionLike |-> TRUE, params |-> <<"x">>, body |-> body]

\* #define A A | #define A B | #define A 1 | #define A G(A)
ADefs == {Undefined, ObjectLike(<<"A">>), ObjectLike(<<"B">>), ObjectLike(<<"1">>),
          ObjectLike(<<"G", "(", "A", ")">>)}
\* #define B A | #define B 1
BDefs == {Undefined, ObjectLike(<<"A">>), ObjectLike(<<"1">>)}
\* #define F(x) x | #define F(x) F(x) | #define F(x) G(F(x))
FDefs == {Undefined, FunctionLike(<<"x">>), FunctionLike(<<"F", "(", "x", ")">>),
          FunctionLike(<<"G", "(", "F", "(", "x", ")", ")">>)}
\* #define G(x) x | #define G(x) F(x)
GDefs == {Undefined, FunctionLike(<<"x">>), FunctionLike(<<"F", "(", "x", ")">>)}

MacroTables == [A : ADefs, B : BDefs, F : FDefs, G : GDefs]

InputLines == {<<"A">>, <<"B">>, <<"F">>, <<"F", "(", "1", ")">>,
               <<"F", "(", "1", ",", "1", ")">>, <<"G", "(", "A", ")">>,
               <<"F", "(", "B">>, <<"1", "A", ")">>,
               <<"\"", "A", "\"">>, <<"'", "B", "'", "A">>,
               <<"F", "(", "\"", "A", "\"", ")">>}

\* macros_.count(word) > 0
IsMacro(table, word) == word \in MacroNames /\ table[word].defined
\* macros_.empty()
NoMacros(table) == \A n \in MacroNames : ~table[n].defined

RECURSIVE ParseArgsFrom(_, _, _, _, _)
ParseArgsFrom(line, at, parenDepth, currentArg, args) ==
    IF at > Len(line) THEN [ok |-> FALSE, args |-> args, at |-> at]
    ELSE LET c == line[at]
         IN  IF c = "(" THEN
                 ParseArgsFrom(line, at + 1, parenDepth + 1, Append(currentArg, c), args)
             ELSE IF c = ")" THEN
                 IF parenDepth = 0
                 THEN [ok |-> TRUE, args |-> Append(args, currentArg), at |-> at + 1]
                 ELSE ParseArgsFrom(line, at + 1, parenDepth - 1,
                                    Append(currentArg, c), args)
             ELSE IF c = "," /\ parenDepth = 0 THEN
                 ParseArgsFrom(line, at + 1, parenDepth, <<>>, Append(args, currentArg))
             ELSE ParseArgsFrom(line, at + 1, parenDepth, Append(currentArg, c), args)

\* ok = FALSE is the runtime_error "Unclosed macro argument list"
parseMacroArgs(line, at) ==
    IF at > Len(line) \/ line[at] # "("
    THEN [ok |-> TRUE, args |-> <<>>, at |-> at]
    ELSE ParseArgsFrom(line, at + 1, 0, <<>>, <<>>)

findParamIndex(params, name) ==
    IF \E k \in 1..Len(params) : params[k] = name
    THEN CHOOSE k \in 1..Len(params) : params[k] = name
    ELSE 0

RECURSIVE SubstituteFrom(_, _, _, _)
SubstituteFrom(body, k, params, args) ==
    IF k > Len(body) THEN <<>>
    ELSE LET paramIdx == findParamIndex(params, body[k])
         IN  (IF paramIdx > 0 THEN args[paramIdx] ELSE <<body[k]>>)
                 \o SubstituteFrom(body, k + 1, params, args)

substituteArgs(body, params, args) ==
    IF Len(params) # Len(args) THEN body
    ELSE SubstituteFrom(body, 1, params, args)

\* a new activation expandMacros(line, forbidden)
Activation(line, forbidden) ==
    [line |-> line, forbidden |-> forbidden, i |-> 1, result |-> <<>>,
     phase |-> "scan", word |-> "", rawArgs |-> <<>>, expandedArgs |-> <<>>]

MxOff ==
    /\ mxpc = "off"
    /\ macros_ = [n \in MacroNames |-> Undefined]
    /\ input = <<>>
    /\ mstack = <<>>
    /\ output = <<>>

MxInit ==
    /\ mxpc = "start"
    /\ macros_ \in MacroTables
    /\ input \in InputLines
    /\ mstack = <<>>
    /\ output = <<>>

MxTop == mstack[Len(mstack)]
MxScanning == mxpc = "expand" /\ MxTop.phase = "scan" /\ MxTop.i <= Len(MxTop.line)
MxWord == MxTop.line[MxTop.i]
\* the next non-blank character after the word is '('
hasParen == MxTop.i < Len(MxTop.line) /\ MxTop.line[MxTop.i + 1] = "("
MxIsCandidate == IsMacro(macros_, MxWord) /\ MxWord \notin MxTop.forbidden
MxReplaceTop(f) == [mstack EXCEPT ![Len(mstack)] = f]

\* the call expandMacros(line) of processFile, and the test macros_.empty()
ExpandLine ==
    /\ mxpc = "start"
    /\ IF NoMacros(macros_)
       THEN /\ output' = input
            /\ mxpc' = "done"
            /\ UNCHANGED mstack
       ELSE /\ mstack' = <<Activation(input, {})>>
            /\ mxpc' = "expand"
            /\ UNCHANGED output
    /\ UNCHANGED <<macros_, input>>

\* a character that is no identifier, a word that is no macro or is forbidden,
\* or a function-like macro without '(': appended to the result as it is
ScanCopy ==
    /\ MxScanning
    /\ IF MxIsCandidate THEN macros_[MxWord].isFunctionLike /\ ~hasParen ELSE TRUE
    /\ mstack' = MxReplaceTop([MxTop EXCEPT !.result = Append(@, MxWord), !.i = @ + 1])
    /\ UNCHANGED <<mxpc, macros_, input, output>>

\* an object-like macro: its body is rescanned with the word forbidden
ScanObjectLike ==
    /\ MxScanning
    /\ MxIsCandidate
    /\ ~macros_[MxWord].isFunctionLike
    /\ Len(mstack) < MaxDepth
    /\ mstack' = Append(MxReplaceTop([MxTop EXCEPT !.phase = "rescan", !.word = MxWord,
                                                    !.i = @ + 1]),
                        Activation(macros_[MxWord].body, MxTop.forbidden \cup {MxWord}))
    /\ UNCHANGED <<mxpc, macros_, input, output>>

\* a function-like macro followed by '(': parseMacroArgs
ScanFunctionLike ==
    /\ MxScanning
    /\ MxIsCandidate
    /\ macros_[MxWord].isFunctionLike
    /\ hasParen
    /\ LET parsed == parseMacroArgs(MxTop.line, MxTop.i + 1)
       IN  IF parsed.ok
           THEN /\ mstack' = MxReplaceTop([MxTop EXCEPT !.phase = "args", !.word = MxWord,
                                                        !.rawArgs = parsed.args,
                                                        !.expandedArgs = <<>>,
                                                        !.i = parsed.at])
                /\ UNCHANGED mxpc
           ELSE /\ mxpc' = "error"
                /\ UNCHANGED mstack
    /\ UNCHANGED <<macros_, input, output>>

\* step A: expandMacros(arg), with the default (empty) forbidden set
PreExpandArg ==
    /\ mxpc = "expand"
    /\ MxTop.phase = "args"
    /\ Len(MxTop.expandedArgs) < Len(MxTop.rawArgs)
    /\ Len(mstack) < MaxDepth
    /\ mstack' = Append(mstack,
                        Activation(MxTop.rawArgs[Len(MxTop.expandedArgs) + 1], {}))
    /\ UNCHANGED <<mxpc, macros_, input, output>>

\* steps B and C: substituteArgs, then the rescan with the word forbidden
SubstituteAndRescan ==
    /\ mxpc = "expand"
    /\ MxTop.phase = "args"
    /\ Len(MxTop.expandedArgs) = Len(MxTop.rawArgs)
    /\ Len(mstack) < MaxDepth
    /\ LET def == macros_[MxTop.word]
           substitution == substituteArgs(def.body, def.params, MxTop.expandedArgs)
       IN  mstack' = Append(MxReplaceTop([MxTop EXCEPT !.phase = "rescan"]),
                            Activation(substitution, MxTop.forbidden \cup {MxTop.word}))
    /\ UNCHANGED <<mxpc, macros_, input, output>>

\* return result: to the caller's expandedArgs or result, or to processFile
ReturnResult ==
    /\ mxpc = "expand"
    /\ MxTop.phase = "scan"
    /\ MxTop.i > Len(MxTop.line)
    /\ IF Len(mstack) = 1
       THEN /\ output' = MxTop.result
            /\ mxpc' = "done"
            /\ mstack' = <<>>
       ELSE LET caller == mstack[Len(mstack) - 1]
                resumed == IF caller.phase = "args"
                           THEN [caller EXCEPT !.expandedArgs = Append(@, MxTop.result)]
                           ELSE [caller EXCEPT !.result = @ \o MxTop.result,
                                               !.phase = "scan"]
            IN  /\ mstack' = Append(SubSeq(mstack, 1, Len(mstack) - 2), resumed)
                /\ UNCHANGED <<mxpc, output>>
    /\ UNCHANGED <<macros_, input>>

----------------------------------------------------------------------------
(* Parser: parseTranslationUnit, parseDeclaration, parseCompoundStatement  *)
(* and what they call, over token streams of these kinds.  A stream is an  *)
(* optional function header "int f ( ) {" followed by up to MaxTokens      *)
(* tokens and EndOfFile; LeftParen occurs in the header only, so the       *)
(* branches of the declarator and expression parsers that start with "("   *)
(* elsewhere are not entered.  There are no typedef names.  A parser state *)
(* p is the position of the current token and the number of errors         *)
(* recorded.  No function of Parser.cpp throws ParseError, so the catch    *)
(* clause of parseTranslationUnit, the one caller of synchronize outside   *)
(* struct bodies, is never entered.                                        *)

MaxTokens == 4
MaxErrors == 3

TokenKinds == {"KW_int", "Identifier", "Semicolon", "RightParen", "LeftBrace",
               "RightBrace", "IntLiteral"}
FunctionHeader == <<"KW_int", "Identifier", "LeftParen", "RightParen", "LeftBrace">>

current(p) == tokens[p.pos]
check(p, kind) == current(p) = kind
\* the lexer keeps returning EndOfFile at the end of the input
advance(p) == [p EXCEPT !.pos = IF @ < Len(tokens) THEN @ + 1 ELSE @]
error(p) == [p EXCEPT !.errors = @ + 1]
expect(p, kind) == IF check(p, kind) THEN advance(p) ELSE error(p)
isAtEnd(p) == check(p, "EndOfFile")
isDeclarationSpecifier(p) == check(p, "KW_int")

\* consumes the type specifiers; spec.type is set iff one was consumed
RECURSIVE parseDeclarationSpecifiers(_)
parseDeclarationSpecifiers(p) ==
    IF isDeclarationSpecifier(p) THEN parseDeclarationSpecifiers(advance(p)) ELSE p

parseParameterDeclaration(p) ==
    LET spec == parseDeclarationSpecifiers(p)
    IN  IF spec.pos = p.pos THEN error(spec)
        ELSE IF check(spec, "Identifier") THEN advance(spec)
        ELSE spec

parseParameterTypeList(p) ==
    IF check(p, "RightParen") THEN p ELSE parseParameterDeclaration(p)

\* the suffix loop of parseDirectDeclarator: ( parameters )
RECURSIVE DeclaratorSuffix(_, _)
DeclaratorSuffix(p, isFunction) ==
    IF check(p, "LeftParen")
    THEN DeclaratorSuffix(expect(parseParameterTypeList(advance(p)), "RightParen"), TRUE)
    ELSE [p |-> p, isFunction |-> isFunction]

parseDirectDeclarator(p) ==
    DeclaratorSuffix(IF check(p, "Identifier") THEN advance(p) ELSE p, FALSE)

\* body = TRUE: a function definition, parseCompoundStatement has consumed "{"
parseDeclaration(p) ==
    LET spec == parseDeclarationSpecifiers(p)
    IN  IF spec.pos = p.pos THEN [p |-> error(spec), body |-> FALSE]
        ELSE IF check(spec, "Semicolon") THEN [p |-> advance(spec), body |-> FALSE]
        ELSE LET decl == parseDirectDeclarator(spec)
             IN  IF decl.isFunction /\ check(decl.p, "LeftBrace")
                 THEN [p |-> expect(decl.p, "LeftBrace"), body |-> TRUE]
                 ELSE [p |-> expect(decl.p, "Semicolon"), body |-> FALSE]

parsePrimaryExpression(p) ==
    IF check(p, "Identifier") \/ check(p, "IntLiteral") THEN advance(p) ELSE error(p)

parseExpressionStatement(p) ==
    IF check(p, "Semicolon") THEN advance(p)
    ELSE expect(parsePrimaryExpression(p), "Semicolon")

\* body = TRUE: a nested compound statement, "{" consumed
parseStatement(p) ==
    IF check(p, "LeftBrace") THEN [p |-> expect(p, "LeftBrace"), body |-> TRUE]
    ELSE [p |-> parseExpressionStatement(p), body |-> FALSE]

PsOff ==
    /\ pspc = "off"
    /\ tokens = <<>>
    /\ pos = 1
    /\ errors_ = 0
    /\ depth = 0

PsInit ==
    /\ pspc = "parse"
    /\ \E header \in {<<>>, FunctionHeader} :
           \E rest \in SeqsUpTo(TokenKinds, MaxTokens) :
               tokens = header \o rest \o <<"EndOfFile">>
    /\ pos = 1
    /\ errors_ = 0
    /\ depth = 0

PsState == [pos |-> pos, errors |-> errors_]

\* one iteration of the loop of parseTranslationUnit
ParseTopLevel ==
    /\ pspc = "parse"
    /\ depth = 0
    /\ ~isAtEnd(PsState)
    /\ errors_ < MaxErrors
    /\ LET r == parseDeclaration(PsState)
       IN  /\ pos' = r.p.pos
           /\ errors_' = r.p.errors
           /\ depth' = IF r.body THEN 1 ELSE 0
    /\ UNCHANGED <<pspc, tokens>>

\* one iteration of the loop of parseCompoundStatement
ParseBlockItem ==
    /\ pspc = "parse"
    /\ depth > 0
    /\ ~check(PsState, "RightBrace")
    /\ ~isAtEnd(PsState)
    /\ errors_ < MaxErrors
    /\ LET r == IF isDeclarationSpecifier(PsState) THEN parseDeclaration(PsState)
                ELSE parseStatement(PsState)
       IN  /\ pos' = r.p.pos
           /\ errors_' = r.p.errors
           /\ depth' = IF r.body THEN depth + 1 ELSE depth
    /\ UNCHANGED <<pspc, tokens>>

\* the end of parseCompoundStatement: expect "}"
CloseBlock ==
    /\ pspc = "parse"
    /\ depth > 0
    /\ IF check(PsState, "RightBrace") THEN TRUE ELSE isAtEnd(PsState)
    /\ LET p == expect(PsState, "RightBrace")
       IN  /\ pos' = p.pos
           /\ errors_' = p.errors
    /\ depth' = depth - 1
    /\ UNCHANGED <<pspc, tokens>>

\* parseTranslationUnit returns
ReturnUnit ==
    /\ pspc = "parse"
    /\ depth = 0
    /\ isAtEnd(PsState)
    /\ pspc' = "done"
    /\ UNCHANGED <<tokens, pos, errors_, depth>>

----------------------------------------------------------------------------
(* Preprocessor: preprocess, processFile, handleConditional and the path   *)
(* an include resolves to.  There are two files in one directory, main.c   *)
(* and a.h.  The text of a file is not known in advance: content holds the *)
(* lines read from it so far, a line read for the first time may be any    *)
(* line, and a file read again yields the same lines.  A path is a file    *)
(* and the number of "./" segments in the spelling of its directory:       *)
(* fs::absolute makes a path absolute without removing "." segments, so    *)
(* dir/a.h and dir/./a.h are different paths of one file.  fstack holds    *)
(* the activations of processFile, the innermost last; an activation's     *)
(* dots is currentDir_ while it runs.  A conditional directive is a line   *)
(* handleConditional recognises: '#', the directive name, then a blank or  *)
(* the end of the line.  "pragma" stands for every other line that starts  *)
(* with '#' and is no #include, #define or #undef.                         *)

MaxLines == 3
MaxPathDots == 2

Files == {"main.c", "a.h"}
EndOfInput == <<"EOF", "">>
ConditionalDirectives == {"ifdef", "ifndef", "if", "elif", "else", "endif"}
SourceLines ==
    {<<"code", "">>, <<"pragma", "">>, <<"define", "A">>, <<"undef", "A">>,
     <<"ifdef", "A">>, <<"ifndef", "A">>, <<"if", "1">>, <<"if", "0">>,
     <<"elif", "1">>, <<"elif", "0">>, <<"else", "">>, <<"endif", "">>,
     <<"include", "main.c">>, <<"include", "a.h">>, <<"include", "./main.c">>,
     <<"include", "./a.h">>, <<"include", "missing.h">>}

\* the file a header name in a "" include names, "" if there is none
HeaderFile(headerName) ==
    CASE headerName \in {"main.c", "./main.c"} -> "main.c"
      [] headerName \in {"a.h", "./a.h"} -> "a.h"
      [] OTHER -> ""
\* the "./" segments the header name adds to currentDir_
HeaderDots(headerName) == IF headerName \in {"./main.c", "./a.h"} THEN 1 ELSE 0

\* currentDir_ + "/" + headerName; error = TRUE is the filesystem_error of
\* fs::exists for a path longer than the system allows
resolveIncludePath(headerName, currentDots) ==
    IF HeaderFile(headerName) = "" THEN [error |-> FALSE, found |-> FALSE, path |-> <<>>]
    ELSE IF currentDots + HeaderDots(headerName) > MaxPathDots
    THEN [error |-> TRUE, found |-> FALSE, path |-> <<>>]
    ELSE [error |-> FALSE, found |-> TRUE,
          path |-> <<HeaderFile(headerName), currentDots + HeaderDots(headerName)>>]

isCurrentBranchActive(stack) == IF stack = <<>> THEN TRUE ELSE stack[Len(stack)].active

\* the literal conditions drawn here: "1" and "0"
evaluateCondition(rest) == rest = "1"

\* a mutation of ConditionalState: the group is active whatever the parent is
ConditionalStateAlone(parentActive, condition) ==
    [active |-> condition, hasMatched |-> condition, parentActive |-> parentActive]

\* the ConditionalState #if, #ifdef and #ifndef push
ConditionalState(parentActive, condition) ==
    [active |-> parentActive /\ condition, hasMatched |-> parentActive /\ condition,
     parentActive |-> parentActive]

handleConditional(line, stack, table) ==
    LET directive == line[1]
        rest == line[2]
        parentActive == isCurrentBranchActive(stack)
        state == stack[Len(stack)]
        Handled(s) == [handled |-> TRUE, error |-> "", stack |-> s]
        Throw(message) == [handled |-> TRUE, error |-> message, stack |-> stack]
        ReplaceTop(s) == Handled([stack EXCEPT ![Len(stack)] = s])
    IN  CASE directive = "ifdef" ->
                 Handled(Append(stack, ConditionalState(parentActive, IsMacro(table, rest))))
          [] directive = "ifndef" ->
                 Handled(Append(stack, ConditionalState(parentActive, ~IsMacro(table, rest))))
          [] directive = "if" ->
                 Handled(Append(stack, ConditionalState(parentActive, evaluateCondition(rest))))
          [] directive = "elif" ->
                 IF stack = <<>> THEN Throw("#elif without #if")
                 ELSE IF state.hasMatched THEN ReplaceTop([state EXCEPT !.active = FALSE])
                 ELSE LET condResult == state.parentActive /\ evaluateCondition(rest)
                      IN  ReplaceTop([state EXCEPT !.active = condResult,
                                                   !.hasMatched = condResult])
          [] directive = "else" ->
                 IF stack = <<>> THEN Throw("#else without #if")
                 ELSE ReplaceTop([state EXCEPT
                                     !.active = state.parentActive /\ ~state.hasMatched])
          [] directive = "endif" ->
                 IF stack = <<>> THEN Throw("#endif without #if")
                 ELSE Handled(SubSeq(stack, 1, Len(stack) - 1))
          [] OTHER -> [handled |-> FALSE, error |-> "", stack |-> stack]

\* a mutation of the final check of preprocess: no check
conditionStackCheckNone(stack) == "ok"

\* the final check of preprocess
conditionStackCheck(stack) == IF stack # <<>> THEN "fatal" ELSE "ok"

PpOff ==
    /\ pppc = "off"
    /\ ppError = ""
    /\ content = [f \in Files |-> [lines |-> <<>>, closed |-> FALSE]]
    /\ fstack = <<>>
    /\ conditionStack_ = <<>>
    /\ loadedFiles_ = {}
    /\ out = <<>>
    /\ lastLine = <<"", "">>
    /\ processed = [f \in Files |-> 0]
    /\ opened = 0
    /\ branches = <<>>
    /\ closed = 0

PpInit ==
    /\ pppc = "start"
    /\ ppError = ""
    /\ content = [f \in Files |-> [lines |-> <<>>, closed |-> FALSE]]
    /\ fstack = <<>>
    /\ conditionStack_ = <<>>
    /\ loadedFiles_ = {}
    /\ out = <<>>
    /\ lastLine = <<"", "">>
    /\ processed = [f \in Files |-> 0]
    /\ opened = 0
    /\ branches = <<>>
    /\ closed = 0

PpTop == fstack[Len(fstack)]
PpRunning == pppc = "run" /\ fstack # <<>>

RECURSIVE LinesRead(_)
LinesRead(S) ==
    IF S = {} THEN 0
    ELSE LET f == CHOOSE x \in S : TRUE
         IN  Len(content[f].lines) + LinesRead(S \ {f})

\* std::getline on the current file yields line
Reads(line) ==
    LET text == content[PpTop.file]
    IN  IF PpTop.line <= Len(text.lines) THEN line = text.lines[PpTop.line]
        ELSE IF text.closed THEN line = EndOfInput
        ELSE \/ line = EndOfInput
             \/ LinesRead(Files) < MaxLines /\ line \in SourceLines

ContentRead(line) ==
    LET text == content[PpTop.file]
    IN  IF PpTop.line <= Len(text.lines) \/ text.closed THEN content
        ELSE IF line = EndOfInput THEN [content EXCEPT ![PpTop.file].closed = TRUE]
        ELSE [content EXCEPT ![PpTop.file].lines = Append(@, line)]

NextLine == [fstack EXCEPT ![Len(fstack)].line = @ + 1]

\* preprocess up to the first line of the root file
Preprocess ==
    /\ pppc = "start"
    /\ pppc' = "run"
    /\ macros_' = [n \in MacroNames |-> Undefined]
    /\ conditionStack_' = <<>>
    /\ loadedFiles_' = {<<"main.c", 0>>}
    /\ fstack' = <<[file |-> "main.c", dots |-> 0, line |-> 1]>>
    /\ processed' = [processed EXCEPT !["main.c"] = @ + 1]
    /\ UNCHANGED <<ppError, content, out, lastLine, opened, closed, branches>>

\* the history of the branches of the open groups after a directive: a
\* directive that opens a group or replaces its top state begins a branch
BranchesAfter(count, before, after) ==
    LET started == IF after[Len(after)].active THEN 1 ELSE 0
    IN  IF Len(after) > Len(before) THEN Append(count, started)
        ELSE IF Len(after) < Len(before) THEN SubSeq(count, 1, Len(after))
        ELSE [count EXCEPT ![Len(after)] = @ + started]

\* 3b: a conditional directive, dispatched whether the branch is active or not
Conditional ==
    /\ PpRunning
    /\ \E line \in SourceLines :
        /\ Reads(line)
        /\ line[1] \in ConditionalDirectives
        /\ LET r == handleConditional(line, conditionStack_, macros_)
           IN  IF r.error # ""
               THEN /\ pppc' = "fatal"
                    /\ ppError' = r.error
                    /\ UNCHANGED <<conditionStack_, out, fstack, opened, closed, branches>>
               ELSE /\ conditionStack_' = r.stack
                    /\ out' = Append(out, "conditional")
                    /\ fstack' = NextLine
                    /\ opened' = IF Len(r.stack) > Len(conditionStack_)
                                 THEN opened + 1 ELSE opened
                    /\ closed' = IF Len(r.stack) < Len(conditionStack_)
                                 THEN closed + 1 ELSE closed
                    /\ branches' = BranchesAfter(branches, conditionStack_, r.stack)
                    /\ UNCHANGED <<pppc, ppError>>
        /\ content' = ContentRead(line)
        /\ lastLine' = line
    /\ UNCHANGED <<macros_, loadedFiles_, processed>>

\* any other line while the current branch is not active
SkipInactive ==
    /\ PpRunning
    /\ ~isCurrentBranchActive(conditionStack_)
    /\ \E line \in SourceLines :
        /\ Reads(line)
        /\ line[1] \notin ConditionalDirectives
        /\ content' = ContentRead(line)
        /\ lastLine' = line
    /\ fstack' = NextLine
    /\ UNCHANGED <<pppc, ppError, macros_, conditionStack_, loadedFiles_, out, processed,
                   opened, closed, branches>>

\* 3c: #include "header", and the entry of processFile for the resolved path
Include ==
    /\ PpRunning
    /\ isCurrentBranchActive(conditionStack_)
    /\ \E line \in SourceLines :
        /\ Reads(line)
        /\ line[1] = "include"
        /\ LET r == resolveIncludePath(line[2], PpTop.dots)
           IN  IF r.error \/ ~r.found
               THEN /\ pppc' = "fatal"
                    /\ ppError' = IF r.error THEN "File name too long"
                                  ELSE "Cannot find header"
                    /\ UNCHANGED <<fstack, loadedFiles_, out, processed>>
               ELSE IF r.path \in loadedFiles_
               THEN /\ out' = out \o <<"begin", "end">>
                    /\ fstack' = NextLine
                    /\ UNCHANGED <<pppc, ppError, loadedFiles_, processed>>
               ELSE /\ out' = Append(out, "begin")
                    /\ loadedFiles_' = loadedFiles_ \cup {r.path}
                    /\ fstack' = Append(NextLine, [file |-> r.path[1], dots |-> r.path[2],
                                                   line |-> 1])
                    /\ processed' = [processed EXCEPT ![r.path[1]] = @ + 1]
                    /\ UNCHANGED <<pppc, ppError>>
        /\ content' = ContentRead(line)
        /\ lastLine' = line
    /\ UNCHANGED <<macros_, conditionStack_, opened, closed, branches>>

\* 4: #define A 1
Define ==
    /\ PpRunning
    /\ isCurrentBranchActive(conditionStack_)
    /\ \E line \in SourceLines :
        /\ Reads(line)
        /\ line[1] = "define"
        /\ macros_' = [macros_ EXCEPT ![line[2]] = ObjectLike(<<"1">>)]
        /\ content' = ContentRead(line)
        /\ lastLine' = line
    /\ out' = Append(out, "defined")
    /\ fstack' = NextLine
    /\ UNCHANGED <<pppc, ppError, conditionStack_, loadedFiles_, processed, opened, closed, branches>>

\* 5: #undef A
Undef ==
    /\ PpRunning
    /\ isCurrentBranchActive(conditionStack_)
    /\ \E line \in SourceLines :
        /\ Reads(line)
        /\ line[1] = "undef"
        /\ macros_' = [macros_ EXCEPT ![line[2]] = Undefined]
        /\ content' = ContentRead(line)
        /\ lastLine' = line
    /\ out' = Append(out, "undefined")
    /\ fstack' = NextLine
    /\ UNCHANGED <<pppc, ppError, conditionStack_, loadedFiles_, processed, opened, closed, branches>>

\* 6: an unknown directive is replaced by a comment, a code line is written
EmitLine ==
    /\ PpRunning
    /\ isCurrentBranchActive(conditionStack_)
    /\ \E line \in SourceLines :
        /\ Reads(line)
        /\ line[1] \in {"code", "pragma"}
        /\ out' = Append(out, IF line[1] = "pragma" THEN "ignored" ELSE "code")
        /\ content' = ContentRead(line)
        /\ lastLine' = line
    /\ fstack' = NextLine
    /\ UNCHANGED <<pppc, ppError, macros_, conditionStack_, loadedFiles_, processed,
                   opened, closed, branches>>

\* std::getline fails: processFile returns, to the including file or to
\* preprocess and its final check of the conditional stack
EndOfFile ==
    /\ PpRunning
    /\ Reads(EndOfInput)
    /\ content' = ContentRead(EndOfInput)
    /\ lastLine' = EndOfInput
    /\ fstack' = SubSeq(fstack, 1, Len(fstack) - 1)
    /\ IF Len(fstack) > 1
       THEN /\ out' = Append(out, "end")
            /\ UNCHANGED <<pppc, ppError>>
       ELSE /\ pppc' = conditionStackCheck(conditionStack_)
            /\ ppError' = IF conditionStack_ # <<>>
                          THEN "Unterminated conditional directive" ELSE ""
            /\ UNCHANGED out
    /\ UNCHANGED <<macros_, conditionStack_, loadedFiles_, processed, opened, closed, branches>>

----------------------------------------------------------------------------
(* Include search path: initIncludePaths (run by the constructor),         *)
(* addIncludePath (called by the driver once per -I, in command-line       *)
(* order) and the search of resolveIncludePath for a relative header name. *)
(* envPaths is CDD_INCLUDE_PATH split at ':', stdlibEnv the value of       *)
(* CDD_STDLIB_PATH ("" if unset), existing the directories that exist,     *)
(* holders the directories that contain the header.                        *)

MaxUserPaths == 2

UserDirs == {"u1", "u2"}
EnvDirs == {"e1", "e2"}
StdlibCandidates == <<"/usr/local/include/cdd", "/usr/include/cdd">>
SystemPaths == <<"/usr/local/include", "/usr/include">>
AllDirs == UserDirs \cup EnvDirs \cup {"stdlib_env", "cwd", "currentDir"}
               \cup {StdlibCandidates[k] : k \in 1..2} \cup {SystemPaths[k] : k \in 1..2}

RECURSIVE FirstExisting(_, _)
FirstExisting(candidates, exists) ==
    IF candidates = <<>> THEN <<>>
    ELSE IF Head(candidates) \in exists THEN <<Head(candidates)>>
    ELSE FirstExisting(Tail(candidates), exists)

initIncludePaths(env, stdlib, exists) ==
    env \o (IF stdlib # "" /\ stdlib \in exists THEN <<stdlib>> ELSE <<>>)
        \o FirstExisting(StdlibCandidates, exists)
        \o SystemPaths

\* includePaths_.insert(includePaths_.end() - 2, path)
addIncludePath(paths, path) ==
    IF Len(paths) >= 2
    THEN SubSeq(paths, 1, Len(paths) - 2) \o <<path>> \o SubSeq(paths, Len(paths) - 1, Len(paths))
    ELSE <<path>> \o paths

RECURSIVE FirstHolding(_, _)
FirstHolding(dirs, holding) ==
    IF dirs = <<>> THEN ""
    ELSE IF Head(dirs) \in holding THEN Head(dirs)
    ELSE FirstHolding(Tail(dirs), holding)

\* the directory the header is found in, "" if in none
resolveInclude(paths, isSystemHeader, holding) ==
    IF ~isSystemHeader /\ "currentDir" \in holding THEN "currentDir"
    ELSE IF FirstHolding(paths, holding) # "" THEN FirstHolding(paths, holding)
    ELSE IF "cwd" \in holding THEN "cwd"
    ELSE ""

DistinctSeqs(S, n) == {s \in SeqsUpTo(S, n) : \A i, j \in 1..Len(s) : i # j => s[i] # s[j]}

IncOff ==
    /\ incpc = "off"
    /\ envPaths = <<>>
    /\ stdlibEnv = ""
    /\ existing = {}
    /\ userPaths = <<>>
    /\ added = 0
    /\ includePaths_ = <<>>
    /\ holders = {}
    /\ resolved = ""

IncInit ==
    /\ incpc = "options"
    /\ envPaths \in DistinctSeqs(EnvDirs, 2)
    /\ stdlibEnv \in {"", "stdlib_env"}
    /\ existing \in SUBSET ({"stdlib_env"} \cup {StdlibCandidates[k] : k \in 1..2})
    /\ userPaths \in SeqsUpTo(UserDirs, MaxUserPaths)
    /\ added = 0
    /\ includePaths_ = initIncludePaths(envPaths, stdlibEnv, existing)
    /\ holders \in {h \in SUBSET AllDirs : Cardinality(h) <= 2}
    /\ resolved = ""

\* the driver passes the next -I path
AddIncludePath ==
    /\ incpc = "options"
    /\ added < Len(userPaths)
    /\ includePaths_' = addIncludePath(includePaths_, userPaths[added + 1])
    /\ added' = added + 1
    /\ UNCHANGED <<incpc, envPaths, stdlibEnv, existing, userPaths, holders, resolved>>

\* an #include of the header, after all -I paths were passed
ResolveInclude ==
    /\ incpc = "options"
    /\ added = Len(userPaths)
    /\ \E isSystemHeader \in BOOLEAN :
           /\ resolved' = resolveInclude(includePaths_, isSystemHeader, holders)
           /\ incpc' = IF isSystemHeader THEN "system" ELSE "quoted"
    /\ UNCHANGED <<envPaths, stdlibEnv, existing, userPaths, added, includePaths_, holders>>

----------------------------------------------------------------------------
(* Lexer: Lexer::scanToken with the automaton of initDFA, getFallbackState, *)
(* finalizeToken and parseInteger.  The source is drawn over the characters *)
(* 0 1 x b u l e . / * @, which reach the integer, suffix, float, dot and   *)
(* operator states; quotes, white space, newlines and the single-character  *)
(* separators do not occur.  scanToken removes comments before it starts    *)
(* the automaton, so the automaton's own comment states are never entered   *)
(* and are left out of step.  No word over the letters x b u l e is a       *)
(* keyword.                                                                 *)

MaxSource == 4

Chars == {"0", "1", "x", "b", "u", "l", "e", ".", "/", "*", "@"}
NUL == "NUL"
NoTransition == "None"

isDigit(c) == c \in {"0", "1"}
isAlpha(c) == c \in {"x", "b", "u", "l", "e"}
isHexDigit(c) == isDigit(c) \/ c \in {"b", "e"}

\* dfa_.step(c): the transitions initDFA adds, NoTransition where there is none
step(s, c) ==
    CASE s = "Start" ->
             IF isAlpha(c) THEN "InIdentifier"
             ELSE IF c = "1" THEN "InInteger"
             ELSE IF c = "0" THEN "InZero"
             ELSE IF c = "/" THEN "InSlash"
             ELSE IF c = "*" THEN "InStar"
             ELSE IF c = "." THEN "InDot"
             ELSE NoTransition
      [] s = "InIdentifier" ->
             IF isAlpha(c) \/ isDigit(c) THEN "InIdentifier" ELSE NoTransition
      [] s = "InInteger" ->
             IF isDigit(c) THEN "InInteger"
             ELSE IF c = "." THEN "InFloatDot"
             ELSE IF c = "e" THEN "InFloatExp"
             ELSE IF c = "u" THEN "InIntSuffixU"
             ELSE IF c = "l" THEN "InIntSuffixL"
             ELSE NoTransition
      [] s = "InZero" ->
             IF c = "x" THEN "InHexStart"
             ELSE IF c = "b" THEN "InBinaryStart"
             ELSE IF isDigit(c) THEN "InOctal"
             ELSE IF c = "." THEN "InFloatDot"
             ELSE IF c = "e" THEN "InFloatExp"
             ELSE IF c = "u" THEN "InIntSuffixU"
             ELSE IF c = "l" THEN "InIntSuffixL"
             ELSE NoTransition
      [] s = "InHexStart" -> IF isHexDigit(c) THEN "InHex" ELSE NoTransition
      [] s = "InHex" ->
             IF isHexDigit(c) THEN "InHex"
             ELSE IF c = "u" THEN "InIntSuffixU"
             ELSE IF c = "l" THEN "InIntSuffixL"
             ELSE NoTransition
      [] s = "InBinaryStart" -> IF isDigit(c) THEN "InBinary" ELSE NoTransition
      [] s \in {"InBinary", "InOctal"} ->
             IF isDigit(c) THEN s
             ELSE IF c = "u" THEN "InIntSuffixU"
             ELSE IF c = "l" THEN "InIntSuffixL"
             ELSE NoTransition
      [] s = "InFloatDot" ->
             IF isDigit(c) THEN "InFloat"
             ELSE IF c = "l" THEN "Done"
             ELSE NoTransition
      [] s = "InFloat" ->
             IF isDigit(c) THEN "InFloat"
             ELSE IF c = "l" THEN "Done"
             ELSE IF c = "e" THEN "InFloatExp"
             ELSE NoTransition
      [] s = "InFloatExp" -> IF isDigit(c) THEN "InFloat" ELSE NoTransition
      [] s = "InIntSuffixU" -> IF c = "l" THEN "InIntSuffixUL" ELSE NoTransition
      [] s = "InIntSuffixL" ->
             IF c = "l" THEN "InIntSuffixLL"
             ELSE IF c = "u" THEN "InIntSuffixUL"
             ELSE NoTransition
      [] s = "InIntSuffixUL" -> IF c = "l" THEN "Done" ELSE NoTransition
      [] s = "InIntSuffixLL" -> IF c = "u" THEN "Done" ELSE NoTransition
      [] s = "InDot" ->
             IF c = "." THEN "InDotDot"
             ELSE IF isDigit(c) THEN "InFloat"
             ELSE NoTransition
      [] s = "InDotDot" -> IF c = "." THEN "Done" ELSE NoTransition
      [] OTHER -> NoTransition

getFallbackState(s) ==
    IF s \in {"InIdentifier", "InInteger", "InZero", "InOctal", "InHex", "InFloat",
              "InBinary", "InIntSuffixU", "InIntSuffixL", "InIntSuffixUL",
              "InIntSuffixLL", "InFloatDot", "InSlash", "InStar", "InDot", "Done"}
    THEN "Done"
    ELSE "Error"

peek(src, at, offset) == IF at + offset <= Len(src) THEN src[at + offset] ELSE NUL

\* the position after a block comment whose text begins at at
RECURSIVE BlockCommentEnd(_, _)
BlockCommentEnd(src, at) ==
    IF at > Len(src) THEN at
    ELSE IF src[at] = "*" /\ peek(src, at, 1) = "/" THEN at + 2
    ELSE BlockCommentEnd(src, at + 1)

\* the first loop of scanToken: a line comment runs to the end of the line,
\* here the end of the source; a block comment runs to its end or to the
\* end of the source
RECURSIVE skipComments(_, _)
skipComments(src, at) ==
    IF peek(src, at, 0) = "/" /\ peek(src, at, 1) = "/" THEN Len(src) + 1
    ELSE IF peek(src, at, 0) = "/" /\ peek(src, at, 1) = "*"
    THEN skipComments(src, BlockCommentEnd(src, at + 2))
    ELSE at

\* the value strtoll gives a character as a digit
DigitValue(c) ==
    CASE c = "0" -> 0 [] c = "1" -> 1 [] c = "b" -> 11 [] c = "e" -> 14
      [] c = "l" -> 21 [] c = "u" -> 30 [] c = "x" -> 33 [] OTHER -> 99

\* strtoll(s, base) for a text without sign or white space: the value of the
\* longest prefix made of digits of the base
RECURSIVE strtollFrom(_, _, _, _)
strtollFrom(s, k, base, acc) ==
    IF k > Len(s) \/ DigitValue(s[k]) >= base THEN acc
    ELSE strtollFrom(s, k + 1, base, acc * base + DigitValue(s[k]))

RECURSIVE removeSuffix(_)
removeSuffix(s) ==
    IF s # <<>> /\ s[Len(s)] \in {"u", "l"}
    THEN removeSuffix(SubSeq(s, 1, Len(s) - 1))
    ELSE s

parseInteger(s, base) ==
    LET numStr == removeSuffix(s)
        digits == IF /\ base \in {16, 2}
                     /\ Len(numStr) > 2
                     /\ numStr[1] = "0"
                     /\ numStr[2] = (IF base = 16 THEN "x" ELSE "b")
                  THEN SubSeq(numStr, 3, Len(numStr))
                  ELSE numStr
    IN  strtollFrom(digits, 1, base, 0)

LexToken(kind, text, intValue) == [kind |-> kind, text |-> text, intValue |-> intValue]

finalizeOperator(lexeme) ==
    CASE lexeme = <<"/">> -> LexToken("Slash", lexeme, 0)
      [] lexeme = <<"*">> -> LexToken("Star", lexeme, 0)
      [] lexeme = <<".">> -> LexToken("Dot", lexeme, 0)
      [] OTHER -> LexToken("Invalid", lexeme, 0)

finalizeToken(state, lexeme) ==
    CASE state \in {"InIdentifier", "Done"} ->
             IF state = "InIdentifier" \/ isAlpha(lexeme[1])
             THEN LexToken("Identifier", lexeme, 0)
             ELSE IF lexeme = <<".", ".", ".">> THEN LexToken("Ellipsis", lexeme, 0)
             ELSE IF isDigit(lexeme[1]) \/ (lexeme[1] = "." /\ isDigit(lexeme[2]))
             THEN LexToken("FloatLiteral", lexeme, 0)
             ELSE finalizeOperator(lexeme)
      [] state \in {"InInteger", "InZero", "InIntSuffixU", "InIntSuffixL",
                    "InIntSuffixUL", "InIntSuffixLL"} ->
             LexToken("IntLiteral", lexeme, parseInteger(lexeme, 10))
      [] state = "InOctal" -> LexToken("IntLiteral", lexeme, parseInteger(lexeme, 8))
      [] state = "InHex" -> LexToken("IntLiteral", lexeme, parseInteger(lexeme, 16))
      [] state = "InBinary" -> LexToken("IntLiteral", lexeme, parseInteger(lexeme, 2))
      [] state \in {"InFloat", "InFloatDot"} ->
             IF lexeme = <<".">> THEN LexToken("Dot", lexeme, 0)
             ELSE LexToken("FloatLiteral", lexeme, 0)
      [] state \in {"InSlash", "InStar", "InDot"} -> finalizeOperator(lexeme)
      [] OTHER -> LexToken("Invalid", <<>>, 0)

\* the second loop of scanToken: the automaton runs from state s at position
\* at until it has no transition or reaches Done
RECURSIVE scanFrom(_, _, _, _)
scanFrom(src, start, at, s) ==
    LET c == peek(src, at, 0)
        lexeme == SubSeq(src, start, at - 1)
        to == IF c = NUL THEN NoTransition ELSE step(s, c)
    IN  IF to = NoTransition THEN
            IF getFallbackState(s) = "Done"
            THEN [token |-> finalizeToken(s, lexeme), at |-> at, state |-> s,
                  lexeme |-> lexeme]
            ELSE IF lexeme = <<>>
            THEN \* Unexpected character: it is consumed
                 [token |-> LexToken("Invalid", <<>>, 0), at |-> at + 1, state |-> s,
                  lexeme |-> lexeme]
            ELSE \* Incomplete token
                 [token |-> LexToken("Invalid", <<>>, 0), at |-> at, state |-> s,
                  lexeme |-> lexeme]
        ELSE IF to = "Done"
        THEN [token |-> finalizeToken("Done", SubSeq(src, start, at)), at |-> at + 1,
              state |-> "Done", lexeme |-> SubSeq(src, start, at)]
        ELSE scanFrom(src, start, at + 1, to)

LxOff ==
    /\ lxpc = "off"
    /\ source_ = <<>>
    /\ pos_ = 1
    /\ tokenStart_ = 1
    /\ lexeme_ = <<>>
    /\ dfaCurrent = "Start"
    /\ lexTokens = <<>>
    /\ lexErrors_ = 0

LxInit ==
    /\ lxpc = "scan"
    /\ source_ \in SeqsUpTo(Chars, MaxSource)
    /\ pos_ = 1
    /\ tokenStart_ = 1
    /\ lexeme_ = <<>>
    /\ dfaCurrent = "Start"
    /\ lexTokens = <<>>
    /\ lexErrors_ = 0

\* nextToken at the end of the input, comments skipped: the EndOfFile token
ScanEndOfFile ==
    /\ lxpc = "scan"
    /\ skipComments(source_, pos_) > Len(source_)
    /\ pos_' = skipComments(source_, pos_)
    /\ lexTokens' = Append(lexTokens, LexToken("EndOfFile", <<>>, 0))
    /\ lxpc' = "done"
    /\ UNCHANGED <<source_, tokenStart_, lexeme_, dfaCurrent, lexErrors_>>

\* nextToken before the end of the input: scanToken runs the automaton
ScanToken ==
    /\ lxpc = "scan"
    /\ skipComments(source_, pos_) <= Len(source_)
    /\ LET start == skipComments(source_, pos_)
           scanned == scanFrom(source_, start, start, "Start")
       IN  /\ tokenStart_' = start
           /\ lexeme_' = scanned.lexeme
           /\ dfaCurrent' = scanned.state
           /\ pos_' = scanned.at
           /\ lexTokens' = Append(lexTokens, scanned.token)
    /\ UNCHANGED <<lxpc, source_, lexErrors_>>

----------------------------------------------------------------------------
(* Driver: main from the lexical analysis on.  The input program is        *)
(* described by what is wrong with it: an unclosed block comment at its    *)
(* end, a character or an incomplete token the lexer returns as Invalid, a *)
(* syntax error, a semantic error.  The lexer adds nothing to its error    *)
(* list (Lexer.cpp has no writer of errors_); the parser meets an Invalid  *)
(* token as an unexpected token.  A parser that does not come back ends in *)
(* std::bad_alloc, which main catches.                                     *)

Modes == {"lex", "ast", "semantic", "ir", "asm"}
Faults == {"unclosedComment", "invalidToken", "syntax", "semantic"}

DrOff ==
    /\ drpc = "off"
    /\ mode = "asm"
    /\ faults = {}
    /\ lexerErrors = 0
    /\ parserErrors = 0
    /\ semanticErrors = 0
    /\ phasesRun = {}
    /\ exitCode = -1

DrInit ==
    /\ drpc = "lex"
    /\ mode \in Modes
    /\ faults \in SUBSET Faults
    /\ lexerErrors = 0
    /\ parserErrors = 0
    /\ semanticErrors = 0
    /\ phasesRun = {}
    /\ exitCode = -1

Exit(rc) == drpc' = "exit" /\ exitCode' = rc

\* --lex: the tokens are printed, then lexer.hasErrors() decides
LexOnly ==
    /\ drpc = "lex"
    /\ mode = "lex"
    /\ phasesRun' = phasesRun \cup {"lexer"}
    /\ lexerErrors' = 0
    /\ Exit(IF lexerErrors' > 0 THEN 1 ELSE 0)
    /\ UNCHANGED <<mode, faults, parserErrors, semanticErrors>>

\* parser.parseTranslationUnit() over parserLexer, then the two checks
Parse ==
    /\ drpc = "lex"
    /\ mode # "lex"
    /\ phasesRun' = phasesRun \cup {"lexer", "parser"}
    /\ lexerErrors' = 0
    /\ parserErrors' = Cardinality(faults \cap {"invalidToken", "syntax"})
    /\ IF lexerErrors' > 0 THEN Exit(1)
       ELSE IF parserErrors' > 0 THEN Exit(1)
       ELSE IF mode = "ast" THEN Exit(0)
       ELSE drpc' = "semantic" /\ UNCHANGED exitCode
    /\ UNCHANGED <<mode, faults, semanticErrors>>

\* the parser throws: catch (const std::exception&) returns 1
ParseFatal ==
    /\ drpc = "lex"
    /\ mode # "lex"
    /\ faults \cap {"invalidToken", "syntax"} # {}
    /\ phasesRun' = phasesRun \cup {"lexer", "parser"}
    /\ Exit(1)
    /\ UNCHANGED <<mode, faults, lexerErrors, parserErrors, semanticErrors>>

\* analyzer.analyze(ast) returns errors_.empty()
Semantic ==
    /\ drpc = "semantic"
    /\ phasesRun' = phasesRun \cup {"semantic"}
    /\ semanticErrors' = Cardinality(faults \cap {"semantic"})
    /\ LET semanticOK == semanticErrors' = 0
       IN  IF ~semanticOK THEN Exit(1)
           ELSE IF mode = "semantic" THEN Exit(0)
           ELSE drpc' = "ir" /\ UNCHANGED exitCode
    /\ UNCHANGED <<mode, faults, lexerErrors, parserErrors>>

\* irGen.generate(ast)
IRGeneration ==
    /\ drpc = "ir"
    /\ phasesRun' = phasesRun \cup {"ir"}
    /\ IF mode = "ir" THEN Exit(0) ELSE drpc' = "codegen" /\ UNCHANGED exitCode
    /\ UNCHANGED <<mode, faults, lexerErrors, parserErrors, semanticErrors>>

\* codeGen.generate(), the assembly goes to the standard output
CodeGeneration ==
    /\ drpc = "codegen"
    /\ phasesRun' = phasesRun \cup {"codegen"}
    /\ Exit(0)
    /\ UNCHANGED <<mode, faults, lexerErrors, parserErrors, semanticErrors>>

----------------------------------------------------------------------------
(* break and continue: the analyzer walks a function body; nest holds the  *)
(* statements whose analysis is under way.  A while statement stands for   *)
(* the three loops, which count alike; a compound statement stands for the *)
(* statements that leave both counters alone (compound, if, label).  The   *)
(* body is any nesting of the three up to MaxNest, with a break or a       *)
(* continue at any place in it.                                            *)

MaxNest == 4

Nestable == {"while", "switch", "compound"}
NoJump == [kind |-> "none", nest |-> <<>>, error |-> FALSE]

\* the test of analyzeBreakStmt
breakOutside(loopDepth, switchDepth) == loopDepth = 0
\* the test of analyzeContinueStmt, and one that looks at loopDepth_ alone
continueOutsideByLoopDepth(loopDepth, switchDepth) == loopDepth = 0
continueOutside(loopDepth, switchDepth) ==
    loopDepth = 0 \/ (switchDepth > 0 /\ loopDepth <= switchDepth)

JmOff ==
    /\ jmpc = "off"
    /\ nest = <<>>
    /\ loopDepth_ = 0
    /\ switchDepth_ = 0
    /\ lastJump = NoJump

JmInit ==
    /\ jmpc = "body"
    /\ nest = <<>>
    /\ loopDepth_ = 0
    /\ switchDepth_ = 0
    /\ lastJump = NoJump

\* analyzeWhileStmt, analyzeDoWhileStmt, analyzeForStmt: up to the body
EnterLoop ==
    /\ jmpc = "body"
    /\ Len(nest) < MaxNest
    /\ nest' = Append(nest, "while")
    /\ loopDepth_' = loopDepth_ + 1
    /\ UNCHANGED <<jmpc, switchDepth_, lastJump>>

\* analyzeSwitchStmt: up to the body
EnterSwitch ==
    /\ jmpc = "body"
    /\ Len(nest) < MaxNest
    /\ nest' = Append(nest, "switch")
    /\ switchDepth_' = switchDepth_ + 1
    /\ loopDepth_' = loopDepth_ + 1
    /\ UNCHANGED <<jmpc, lastJump>>

\* analyzeCompoundStmt, analyzeIfStmt: up to the first inner statement
EnterCompound ==
    /\ jmpc = "body"
    /\ Len(nest) < MaxNest
    /\ nest' = Append(nest, "compound")
    /\ UNCHANGED <<jmpc, loopDepth_, switchDepth_, lastJump>>

\* the analysis of the innermost statement returns
LeaveStmt ==
    /\ jmpc = "body"
    /\ nest # <<>>
    /\ LET inner == nest[Len(nest)]
       IN  /\ loopDepth_' = IF inner \in {"while", "switch"} THEN loopDepth_ - 1
                            ELSE loopDepth_
           /\ switchDepth_' = IF inner = "switch" THEN switchDepth_ - 1 ELSE switchDepth_
    /\ nest' = SubSeq(nest, 1, Len(nest) - 1)
    /\ UNCHANGED <<jmpc, lastJump>>

AnalyzeBreak ==
    /\ jmpc = "body"
    /\ lastJump' = [kind |-> "break", nest |-> nest,
                    error |-> breakOutside(loopDepth_, switchDepth_)]
    /\ UNCHANGED <<jmpc, nest, loopDepth_, switchDepth_>>

AnalyzeContinue ==
    /\ jmpc = "body"
    /\ lastJump' = [kind |-> "continue", nest |-> nest,
                    error |-> continueOutside(loopDepth_, switchDepth_)]
    /\ UNCHANGED <<jmpc, nest, loopDepth_, switchDepth_>>

----------------------------------------------------------------------------
(* Types: areTypesCompatible and getCommonType.  A type is a record with    *)
(* the fields of the Type classes; a field a class does not have keeps the  *)
(* value it has in VoidType.  pointee, elementType and returnType hold one  *)
(* type as a sequence of length one.  Types are built from the basic types  *)
(* and a few function types by pointer and array up to MaxTypeDepth.        *)
(* getCommonType is applied to integer and floating types; its enum and     *)
(* pointer branches are left out.                                           *)

MaxTypeDepth == 1

IntegerKinds == <<"Char", "Short", "Int", "Long", "LongLong">>
FloatKinds == <<"Float", "Double", "LongDouble">>
\* the value of an enumerator: its place in the enum
KindOrder(kinds, k) == CHOOSE n \in 1..Len(kinds) : kinds[n] = k

VoidType ==
    [kind |-> "Void", intKind |-> "Int", isUnsigned |-> FALSE, floatKind |-> "Double",
     name |-> "", pointee |-> <<>>, elementType |-> <<>>, length |-> 0,
     returnType |-> <<>>, paramTypes |-> <<>>, isVariadic |-> FALSE,
     members |-> <<>>, isComplete |-> FALSE]
IntegerType(k, isUnsigned) ==
    [VoidType EXCEPT !.kind = "Integer", !.intKind = k, !.isUnsigned = isUnsigned]
FloatType(k) == [VoidType EXCEPT !.kind = "Float", !.floatKind = k]
PointerType(base) == [VoidType EXCEPT !.kind = "Pointer", !.pointee = <<base>>]
ArrayType(elem, len) ==
    [VoidType EXCEPT !.kind = "Array", !.elementType = <<elem>>, !.length = len]
FunctionType(ret, params, variadic) ==
    [VoidType EXCEPT !.kind = "Function", !.returnType = <<ret>>, !.paramTypes = params,
                     !.isVariadic = variadic]
StructType(n) == [VoidType EXCEPT !.kind = "Struct", !.name = n]
UnionType(n) == [VoidType EXCEPT !.kind = "Union", !.name = n]
EnumType(n) == [VoidType EXCEPT !.kind = "Enum", !.name = n]
NullType == [VoidType EXCEPT !.kind = "nullptr"]

isVoid(t) == t.kind = "Void"
isFloat(t) == t.kind = "Float"

\* void* is compatible with every pointer: the test on the two pointees, and
\* a test that looks at the second pointee alone
secondIsVoid(p1, p2) == isVoid(p2.pointee[1])
eitherIsVoid(p1, p2) == isVoid(p1.pointee[1]) \/ isVoid(p2.pointee[1])

RECURSIVE areTypesCompatible(_, _)
areTypesCompatible(a, b) ==
    IF a.kind # b.kind THEN FALSE
    ELSE CASE a.kind = "Void" -> TRUE
           [] a.kind = "Integer" -> a.intKind = b.intKind /\ a.isUnsigned = b.isUnsigned
           [] a.kind = "Float" -> a.floatKind = b.floatKind
           [] a.kind = "Pointer" ->
                  IF eitherIsVoid(a, b) THEN TRUE
                  ELSE areTypesCompatible(a.pointee[1], b.pointee[1])
           [] a.kind = "Array" ->
                  IF ~areTypesCompatible(a.elementType[1], b.elementType[1]) THEN FALSE
                  ELSE IF a.length < 0 \/ b.length < 0 THEN TRUE
                  ELSE a.length = b.length
           [] a.kind = "Function" ->
                  IF ~areTypesCompatible(a.returnType[1], b.returnType[1]) THEN FALSE
                  ELSE IF Len(a.paramTypes) # Len(b.paramTypes) THEN FALSE
                  ELSE IF a.isVariadic # b.isVariadic THEN FALSE
                  ELSE \A i \in 1..Len(a.paramTypes) :
                           areTypesCompatible(a.paramTypes[i], b.paramTypes[i])
           [] a.kind \in {"Struct", "Union", "Enum"} -> a.name = b.name
           [] OTHER -> FALSE

getCommonType(a, b) ==
    IF areTypesCompatible(a, b) THEN a
    ELSE IF isFloat(a) \/ isFloat(b) THEN
        IF isFloat(a) /\ isFloat(b)
        THEN IF KindOrder(FloatKinds, a.floatKind) >= KindOrder(FloatKinds, b.floatKind)
             THEN a ELSE b
        ELSE IF isFloat(a) THEN a ELSE b
    ELSE IF a.kind = "Integer" /\ b.kind = "Integer" THEN
        LET r1 == KindOrder(IntegerKinds, a.intKind)
            r2 == KindOrder(IntegerKinds, b.intKind)
            widest == IF r1 >= r2 THEN r1 ELSE r2
            resultKind == IF widest < KindOrder(IntegerKinds, "Int") THEN "Int"
                          ELSE IntegerKinds[widest]
            isUnsigned == IF r1 = r2 THEN a.isUnsigned \/ b.isUnsigned
                          ELSE IF r1 > r2 THEN a.isUnsigned
                          ELSE b.isUnsigned
        IN  IntegerType(resultKind, isUnsigned)
    ELSE NullType

IntegerTypes ==
    {IntegerType(IntegerKinds[k], u) : k \in 1..Len(IntegerKinds), u \in BOOLEAN}
ArithmeticTypes == IntegerTypes \cup {FloatType(FloatKinds[k]) : k \in 1..Len(FloatKinds)}

BasicTypes ==
    {VoidType, IntegerType("Char", FALSE), IntegerType("Int", FALSE),
     IntegerType("Int", TRUE), FloatType("Double"), StructType("S"), StructType("T"),
     UnionType("S"), EnumType("E")}
FunctionTypes ==
    {FunctionType(IntegerType("Int", FALSE), params, variadic) :
        params \in {<<>>, <<IntegerType("Int", FALSE)>>, <<FloatType("Double")>>},
        variadic \in BOOLEAN}
ArrayLengths == {-1, 2, 3}

RECURSIVE TypesUpTo(_)
TypesUpTo(d) ==
    IF d = 0 THEN BasicTypes \cup FunctionTypes
    ELSE LET inner == TypesUpTo(d - 1)
         IN  inner \cup {PointerType(t) : t \in inner}
                   \cup {ArrayType(t, n) : t \in inner \ {VoidType}, n \in ArrayLengths}

TyOff ==
    /\ typc = "off"
    /\ t1 = VoidType
    /\ t2 = VoidType
    /\ compatible = <<>>
    /\ commonType = NullType

TyInitCompatible ==
    /\ typc = "input"
    /\ t1 \in TypesUpTo(MaxTypeDepth)
    /\ t2 \in TypesUpTo(MaxTypeDepth)
    /\ compatible = <<>>
    /\ commonType = NullType

TyInitCommon ==
    /\ typc = "input"
    /\ t1 \in ArithmeticTypes
    /\ t2 \in ArithmeticTypes
    /\ compatible = <<>>
    /\ commonType = NullType

\* areTypesCompatible on the two orders of the pair and on each type with itself
AreTypesCompatible ==
    /\ typc = "input"
    /\ compatible' = [forward |-> areTypesCompatible(t1, t2),
                      backward |-> areTypesCompatible(t2, t1),
                      first |-> areTypesCompatible(t1, t1),
                      second |-> areTypesCompatible(t2, t2)]
    /\ typc' = "compared"
    /\ UNCHANGED <<t1, t2, commonType>>

GetCommonType ==
    /\ typc \in {"input", "compared"}
    /\ commonType' = getCommonType(t1, t2)
    /\ typc' = "common"
    /\ UNCHANGED <<t1, t2, compatible>>

----------------------------------------------------------------------------
(* Struct layout: SemanticAnalyzer::analyzeRecordDecl for a struct          *)
(* declaration and SemanticAnalyzer::resolveAstType for a struct defined    *)
(* where a type stands, with Type::size and Type::alignment.  A field is a  *)
(* char, a long, an array of two chars, or an anonymous struct or union of  *)
(* two such members.  Member names are numbers, 0 for a field without a     *)
(* name, and all names of one struct differ, so the duplicate test of       *)
(* analyzeRecordDecl never skips a member.                                  *)

MaxFields == 3

alignUp(at, align) == ((at + align - 1) \div align) * align
Maximum(S, least) == IF S = {} THEN least ELSE CHOOSE m \in S : \A n \in S : n <= m

Member(name, type, at) == [name |-> name, type |-> type, offset |-> at]

\* Type::size and Type::alignment of the classes of Type.h
RECURSIVE size(_)
RECURSIVE alignment(_)
size(t) ==
    CASE t.kind = "Void" -> 0
      [] t.kind = "Integer" ->
             (CASE t.intKind = "Char" -> 1 [] t.intKind = "Short" -> 2
                [] t.intKind = "Int" -> 4 [] OTHER -> 8)
      [] t.kind = "Float" ->
             (CASE t.floatKind = "Float" -> 4 [] t.floatKind = "Double" -> 8
                [] OTHER -> 16)
      [] t.kind = "Pointer" -> 8
      [] t.kind = "Array" ->
             IF t.length < 0 THEN 0 ELSE size(t.elementType[1]) * t.length
      [] t.kind = "Struct" ->
             IF ~t.isComplete \/ t.members = <<>> THEN 0
             ELSE LET last == t.members[Len(t.members)]
                  IN  alignUp(last.offset + size(last.type), alignment(t))
      [] t.kind = "Union" ->
             Maximum({size(t.members[k].type) : k \in 1..Len(t.members)}, 0)
      [] t.kind = "Enum" -> 4
      [] OTHER -> 0
alignment(t) ==
    CASE t.kind \in {"Integer", "Float"} -> size(t)
      [] t.kind = "Pointer" -> 8
      [] t.kind = "Array" -> alignment(t.elementType[1])
      [] t.kind \in {"Struct", "Union"} ->
             Maximum({alignment(t.members[k].type) : k \in 1..Len(t.members)}, 1)
      [] t.kind = "Enum" -> 4
      [] OTHER -> 1

\* the AST of a type: ast::BasicType, ast::ArrayType with its declared
\* length, ast::RecordType with its fields
BasicAst(k) ==
    [node |-> "BasicType", kind |-> k, elementType |-> <<>>, length |-> 0,
     isUnion |-> FALSE, fields |-> <<>>]
ArrayAst(elem, len) ==
    [node |-> "ArrayType", kind |-> "", elementType |-> <<elem>>, length |-> len,
     isUnion |-> FALSE, fields |-> <<>>]
RecordAst(isUnion, fields) ==
    [node |-> "RecordType", kind |-> "", elementType |-> <<>>, length |-> 0,
     isUnion |-> isUnion, fields |-> fields]
FieldDecl(name, type) == [name |-> name, type |-> type]

RECURSIVE resolveAstType(_)
RECURSIVE resolveStructFields(_, _, _, _)
resolveAstType(astType) ==
    CASE astType.node = "BasicType" -> IntegerType(astType.kind, FALSE)
      [] astType.node = "ArrayType" ->
             ArrayType(resolveAstType(astType.elementType[1]), -1)
      [] astType.node = "RecordType" ->
             IF astType.isUnion
             THEN [UnionType("") EXCEPT
                      !.members = [k \in 1..Len(astType.fields) |->
                                      Member(astType.fields[k].name,
                                             resolveAstType(astType.fields[k].type), 0)],
                      !.isComplete = TRUE]
             ELSE [StructType("") EXCEPT
                      !.members = resolveStructFields(astType.fields, 1, 0, <<>>),
                      !.isComplete = TRUE]
\* the loop over the fields of a struct in resolveAstType
resolveStructFields(fields, k, at, members) ==
    IF k > Len(fields) THEN members
    ELSE LET field == fields[k]
             fieldType == resolveAstType(field.type)
             aligned == alignUp(at, alignment(fieldType))
             anon == fieldType.members
             placed ==
                 IF field.name = 0 /\ fieldType.kind = "Struct"
                 THEN [j \in 1..Len(anon) |->
                          Member(anon[j].name, anon[j].type, aligned + anon[j].offset)]
                 ELSE IF field.name = 0 /\ fieldType.kind = "Union"
                 THEN [j \in 1..Len(anon) |-> Member(anon[j].name, anon[j].type, aligned)]
                 ELSE <<Member(field.name, fieldType, aligned)>>
         IN  resolveStructFields(fields, k + 1, aligned + size(fieldType),
                                 members \o placed)

\* the loop of analyzeRecordDecl over the members of an anonymous struct
RECURSIVE promoteStructMembers(_, _, _, _)
promoteStructMembers(anon, j, at, members) ==
    IF j > Len(anon) THEN [offset |-> at, members |-> members]
    ELSE LET aligned == alignUp(at, alignment(anon[j].type))
         IN  promoteStructMembers(anon, j + 1, aligned + size(anon[j].type),
                                  Append(members,
                                         Member(anon[j].name, anon[j].type, aligned)))

\* what a field can be: its type, with names made from the field's number
FieldShapes == {"char", "long", "char[2]", "struct{char,long}", "struct{long,char}",
                "union{char,long}", "union{long,char}", "union{char,char}"}
InnerFields(k, first, second) ==
    <<FieldDecl(10 * k + 1, BasicAst(first)), FieldDecl(10 * k + 2, BasicAst(second))>>
FieldOfShape(k, shape) ==
    CASE shape = "char" -> FieldDecl(k, BasicAst("Char"))
      [] shape = "long" -> FieldDecl(k, BasicAst("Long"))
      [] shape = "char[2]" -> FieldDecl(k, ArrayAst(BasicAst("Char"), 2))
      [] shape = "struct{char,long}" ->
             FieldDecl(0, RecordAst(FALSE, InnerFields(k, "Char", "Long")))
      [] shape = "struct{long,char}" ->
             FieldDecl(0, RecordAst(FALSE, InnerFields(k, "Long", "Char")))
      [] shape = "union{char,long}" ->
             FieldDecl(0, RecordAst(TRUE, InnerFields(k, "Char", "Long")))
      [] shape = "union{long,char}" ->
             FieldDecl(0, RecordAst(TRUE, InnerFields(k, "Long", "Char")))
      [] shape = "union{char,char}" ->
             FieldDecl(0, RecordAst(TRUE, InnerFields(k, "Char", "Char")))
RecordDefinitions ==
    {[k \in 1..Len(shapes) |-> FieldOfShape(k, shapes[k])] :
        shapes \in SeqsUpTo(FieldShapes, MaxFields) \ {<<>>}}

RlOff ==
    /\ rlpc = "off"
    /\ route = "decl"
    /\ recordFields = <<>>
    /\ fieldIndex = 1
    /\ offset_ = 0
    /\ st = StructType("")

RlInit ==
    /\ rlpc = "fields"
    /\ route \in {"decl", "type"}
    /\ recordFields \in RecordDefinitions
    /\ fieldIndex = 1
    /\ offset_ = 0
    /\ st = StructType("S")

RlField == recordFields[fieldIndex]
RlFieldType == resolveAstType(RlField.type)
RlInLoop == rlpc = "fields" /\ route = "decl" /\ fieldIndex <= Len(recordFields)
RlIsAnonymous(kind) == RlField.name = 0 /\ RlFieldType.kind = kind

\* analyzeRecordDecl, one turn of the loop: a field with a name
AnalyzeField ==
    /\ RlInLoop
    /\ ~RlIsAnonymous("Struct")
    /\ ~RlIsAnonymous("Union")
    /\ LET aligned == alignUp(offset_, alignment(RlFieldType))
       IN  /\ st' = [st EXCEPT !.members = Append(@, Member(RlField.name, RlFieldType,
                                                            aligned))]
           /\ offset_' = aligned + size(RlFieldType)
    /\ fieldIndex' = fieldIndex + 1
    /\ UNCHANGED <<rlpc, route, recordFields>>

\* analyzeRecordDecl, one turn of the loop: an anonymous struct
PromoteAnonymousStruct ==
    /\ RlInLoop
    /\ RlIsAnonymous("Struct")
    /\ LET promoted == promoteStructMembers(RlFieldType.members, 1, offset_, st.members)
       IN  /\ st' = [st EXCEPT !.members = promoted.members]
           /\ offset_' = promoted.offset
    /\ fieldIndex' = fieldIndex + 1
    /\ UNCHANGED <<rlpc, route, recordFields>>

\* analyzeRecordDecl, one turn of the loop: an anonymous union
PromoteAnonymousUnion ==
    /\ RlInLoop
    /\ RlIsAnonymous("Union")
    /\ LET anon == RlFieldType.members
           maxSize == Maximum({size(anon[j].type) : j \in 1..Len(anon)}, 0)
       IN  /\ st' = [st EXCEPT !.members =
                        @ \o [j \in 1..Len(anon) |->
                                 Member(anon[j].name, anon[j].type, offset_)]]
           /\ offset_' = offset_ + maxSize
    /\ fieldIndex' = fieldIndex + 1
    /\ UNCHANGED <<rlpc, route, recordFields>>

\* analyzeRecordDecl after the loop: the struct is complete
CompleteRecord ==
    /\ rlpc = "fields"
    /\ route = "decl"
    /\ fieldIndex > Len(recordFields)
    /\ st' = [st EXCEPT !.isComplete = recordFields # <<>>]
    /\ rlpc' = "done"
    /\ UNCHANGED <<route, recordFields, fieldIndex, offset_>>

\* resolveAstType of a struct definition with fields
ResolveRecordType ==
    /\ rlpc = "fields"
    /\ route = "type"
    /\ st' = [resolveAstType(RecordAst(FALSE, recordFields)) EXCEPT !.name = st.name]
    /\ rlpc' = "done"
    /\ UNCHANGED <<route, recordFields, fieldIndex, offset_>>

----------------------------------------------------------------------------
(* Symbol table: SymbolTable::enterScope, exitScope, addSymbol and           *)
(* allocateLocal, called as SemanticAnalyzer calls them: a function scope    *)
(* is entered from the global scope and receives the parameters, block      *)
(* scopes are entered inside it and receive variables and enumeration        *)
(* constants.  The type of a symbol is what resolveAstType makes of the      *)
(* declared type.                                                            *)

MaxScopes == 4
MaxSymbols == 3

SymbolNames == {"a", "b"}
DeclaredTypes ==
    {BasicAst("Char"), BasicAst("Int"), BasicAst("Long"), ArrayAst(BasicAst("Int"), 4)}

Scope(kind, parent) ==
    [kind |-> kind, parent |-> parent, symbols |-> {}, nextLocalOffset |-> 0]
Symbol(name, kind, type) ==
    [name |-> name, kind |-> kind, type |-> type, stackOffset |-> 0]

lookupLocal(scope, name) == {sym \in scope.symbols : sym.name = name}

\* the walk of allocateLocal from a scope to the function scope around it,
\* 0 when there is none
RECURSIVE functionScope(_, _)
functionScope(scopes, s) ==
    IF s = 0 THEN 0
    ELSE IF scopes[s].kind = "Function" THEN s
    ELSE functionScope(scopes, scopes[s].parent)

\* SymbolTable::allocateLocal: the new value of the counter and the result
alignedPlusSize(counter, sz, align) == alignUp(counter, align) + sz
allocateLocal(scopes, from, sz, align) ==
    LET funcScope == functionScope(scopes, from)
    IN  IF funcScope = 0 THEN [scopes |-> scopes, result |-> 0]
        ELSE LET next == alignedPlusSize(scopes[funcScope].nextLocalOffset, sz, align)
             IN  [scopes |-> [scopes EXCEPT ![funcScope].nextLocalOffset = next],
                  result |-> -next]

SyOff ==
    /\ allScopes_ = <<>>
    /\ currentScope_ = 0
    /\ addResult = TRUE
    /\ allocations = <<>>

\* SymbolTable::SymbolTable
SyInit ==
    /\ allScopes_ = <<Scope("Global", 0)>>
    /\ currentScope_ = 1
    /\ addResult = TRUE
    /\ allocations = <<>>

SyCreated == Len(allScopes_) > 0 /\ Len(allScopes_) < MaxScopes
SySymbols ==
    Cardinality(UNION {allScopes_[s].symbols : s \in 1..Len(allScopes_)})

enterScope(kind) ==
    /\ allScopes_' = Append(allScopes_, Scope(kind, currentScope_))
    /\ currentScope_' = Len(allScopes_) + 1
    /\ UNCHANGED <<addResult, allocations>>

\* analyzeFunctionDecl of a definition: enterScope(ScopeKind::Function)
EnterFunction ==
    /\ SyCreated
    /\ allScopes_[currentScope_].kind = "Global"
    /\ enterScope("Function")

\* analyzeCompoundStmt, analyzeForStmt: enterScope(ScopeKind::Block)
EnterBlock ==
    /\ SyCreated
    /\ allScopes_[currentScope_].kind # "Global"
    /\ enterScope("Block")

\* SymbolTable::exitScope
ExitScope ==
    /\ currentScope_ > 1
    /\ currentScope_' = allScopes_[currentScope_].parent
    /\ UNCHANGED <<allScopes_, addResult, allocations>>

\* SymbolTable::addSymbol
addSymbol(sym) ==
    LET scope == allScopes_[currentScope_]
        local == currentScope_ # 1 /\ sym.kind \in {"Variable", "Parameter"}
        alloc == allocateLocal(allScopes_, currentScope_, size(sym.type),
                               alignment(sym.type))
        placed == IF local THEN [sym EXCEPT !.stackOffset = alloc.result] ELSE sym
        scopes == IF local THEN alloc.scopes ELSE allScopes_
        funcScope == functionScope(allScopes_, currentScope_)
    IN  IF lookupLocal(scope, sym.name) # {}
        THEN /\ addResult' = FALSE
             /\ UNCHANGED <<allScopes_, currentScope_, allocations>>
        ELSE /\ addResult' = TRUE
             /\ allScopes_' = [scopes EXCEPT ![currentScope_].symbols = @ \cup {placed}]
             /\ allocations' =
                    IF local /\ funcScope # 0
                    THEN Append(allocations,
                                [function |-> funcScope,
                                 before |-> allScopes_[funcScope].nextLocalOffset,
                                 symbol |-> placed])
                    ELSE allocations
             /\ UNCHANGED currentScope_

\* analyzeFunctionDecl: the type of a parameter, an array decayed to a pointer
paramType(declared) ==
    LET arr == resolveAstType(declared)
    IN  IF arr.kind = "Array" THEN PointerType(arr.elementType[1]) ELSE arr

\* analyzeFunctionDecl: a parameter of the function whose scope was entered
AddParameter ==
    /\ currentScope_ > 0
    /\ SySymbols < MaxSymbols
    /\ allScopes_[currentScope_].kind = "Function"
    /\ \E name \in SymbolNames, declared \in DeclaredTypes :
           addSymbol(Symbol(name, "Parameter", paramType(declared)))

\* analyzeVarDecl: a variable of the current scope
AddVariable ==
    /\ currentScope_ > 0
    /\ SySymbols < MaxSymbols
    /\ allScopes_[currentScope_].kind \in {"Global", "Block"}
    /\ \E name \in SymbolNames, declared \in DeclaredTypes :
           addSymbol(Symbol(name, "Variable", resolveAstType(declared)))

\* resolveAstType of an enum definition: an enumeration constant
AddEnumConstant ==
    /\ currentScope_ > 0
    /\ SySymbols < MaxSymbols
    /\ \E name \in SymbolNames :
           addSymbol(Symbol(name, "EnumConstant", IntegerType("Int", FALSE)))

----------------------------------------------------------------------------
(* Statements to quadruples: IRGenerator::genStmt and what it calls for     *)
(* if, while, do, for, switch, case, default, break, continue, label and    *)
(* goto, run on the body of one function after SemanticAnalyzer::analyzeStmt *)
(* has accepted it.  Conditions are the variable x, so genExpr emits        *)
(* nothing for them.  A label is a prefix and a number: newLabel makes      *)
(* "while0" from the prefix "while" and the counter 0, and a label the user *)
(* writes as while0 is the same label; the number of the user's label a is  *)
(* NoNumber.  The generator state carries a log of what was entered, left   *)
(* and jumped from, which the generator itself never reads.                 *)

MaxStmtDepth == 2
MaxBody == 2

NoNumber == 0 - 1
NoLabel == Lbl("", NoNumber)
Stmt(kind, label, inner) == [kind |-> kind, label |-> label, inner |-> inner]

LoopKinds == {"WhileStmt", "DoWhileStmt", "ForStmt"}
UserLabels == {Lbl("a", NoNumber), Lbl("endwhile", 1)}
SimpleStmts ==
    {Stmt("ExprStmt", NoLabel, <<>>), Stmt("BreakStmt", NoLabel, <<>>),
     Stmt("ContinueStmt", NoLabel, <<>>), Stmt("GotoStmt", Lbl("a", NoNumber), <<>>)}
RECURSIVE StmtsUpTo(_)
StmtsUpTo(d) ==
    IF d = 0 THEN SimpleStmts
    ELSE LET inner == StmtsUpTo(d - 1)
         IN  inner
             \cup {Stmt(kind, NoLabel, <<s>>) :
                      kind \in LoopKinds \cup {"SwitchStmt", "CaseStmt", "IfStmt"},
                      s \in inner}
             \cup {Stmt("LabelStmt", label, <<s>>) : label \in UserLabels, s \in inner}

\* SemanticAnalyzer::analyzeStmt: TRUE when it reports no error
RECURSIVE analyzeStmt(_, _, _)
analyzeStmt(s, loopDepth, switchDepth) ==
    CASE s.kind \in LoopKinds -> analyzeStmt(s.inner[1], loopDepth + 1, switchDepth)
      [] s.kind = "SwitchStmt" -> analyzeStmt(s.inner[1], loopDepth + 1, switchDepth + 1)
      [] s.kind = "CaseStmt" ->
             switchDepth # 0 /\ analyzeStmt(s.inner[1], loopDepth, switchDepth)
      [] s.kind \in {"IfStmt", "LabelStmt"} ->
             analyzeStmt(s.inner[1], loopDepth, switchDepth)
      [] s.kind = "BreakStmt" -> ~breakOutside(loopDepth, switchDepth)
      [] s.kind = "ContinueStmt" -> ~continueOutside(loopDepth, switchDepth)
      [] OTHER -> TRUE

\* the log: entering and leaving a loop or switch, with the labels made for
\* it and the target stacks at that moment, and the jump of a break or continue
LogEntry(event, kind, endLabel, continueLabel, g) ==
    [event |-> event, kind |-> kind, endLabel |-> endLabel,
     continueLabel |-> continueLabel,
     breakTargets |-> g.breakTargets_, continueTargets |-> g.continueTargets_]
logged(g, entry) == [g EXCEPT !.log = Append(@, entry)]

newLabels(g, n) == [g EXCEPT !.labelCounter_ = @ + n]
push(stack, x) == Append(stack, x)
pop(stack) == SubSeq(stack, 1, Len(stack) - 1)

RECURSIVE genStmt(_, _)

genIfStmt(s, g) ==
    LET endLabel == Lbl("endif", g.labelCounter_ + 1)
        g1 == emitJumpFalse(newLabels(g, 2), Variable("x"), endLabel)
    IN  emitLabel(genStmt(s.inner[1], g1), endLabel)

\* what the three loops do with the target stacks and the log
enterLoop(g, made, kind, endLabel, continueLabel) ==
    logged([newLabels(g, made) EXCEPT !.breakTargets_ = push(@, endLabel),
                                      !.continueTargets_ = push(@, continueLabel)],
           LogEntry("enter", kind, endLabel, continueLabel, g))
leaveLoop(g, kind, endLabel, continueLabel) ==
    LET g1 == [g EXCEPT !.breakTargets_ = pop(@), !.continueTargets_ = pop(@)]
    IN  logged(g1, LogEntry("leave", kind, endLabel, continueLabel, g1))

genWhileStmt(s, g) ==
    LET startLabel == Lbl("while", g.labelCounter_)
        endLabel == Lbl("endwhile", g.labelCounter_ + 1)
        g1 == emitLabel(enterLoop(g, 2, s.kind, endLabel, startLabel), startLabel)
        g2 == genStmt(s.inner[1], emitJumpFalse(g1, Variable("x"), endLabel))
    IN  leaveLoop(emitLabel(emitJump(g2, startLabel), endLabel),
                  s.kind, endLabel, startLabel)

genDoWhileStmt(s, g) ==
    LET startLabel == Lbl("do", g.labelCounter_)
        condLabel == Lbl("docond", g.labelCounter_ + 1)
        endLabel == Lbl("enddo", g.labelCounter_ + 2)
        g1 == emitLabel(enterLoop(g, 3, s.kind, endLabel, condLabel), startLabel)
        g2 == emitLabel(genStmt(s.inner[1], g1), condLabel)
    IN  leaveLoop(emitLabel(emitJumpTrue(g2, Variable("x"), startLabel), endLabel),
                  s.kind, endLabel, condLabel)

genForStmt(s, g) ==
    LET condLabel == Lbl("forcond", g.labelCounter_)
        incLabel == Lbl("forinc", g.labelCounter_ + 1)
        endLabel == Lbl("endfor", g.labelCounter_ + 2)
        g1 == emitLabel(enterLoop(g, 3, s.kind, endLabel, incLabel), condLabel)
        g2 == genStmt(s.inner[1], emitJumpFalse(g1, Variable("x"), endLabel))
        g3 == emitJump(emitLabel(g2, incLabel), condLabel)
    IN  leaveLoop(emitLabel(g3, endLabel), s.kind, endLabel, incLabel)

\* genSwitchStmt with its SwitchInfo on switchStack_
genSwitch(s, g) ==
    LET endLabel == Lbl("endswitch", g.labelCounter_)
        info == [cases |-> <<>>, endLabel |-> endLabel, defaultLabel |-> endLabel]
        bodyLabel == Lbl("switchbody", g.labelCounter_ + 1)
        tableLabel == Lbl("switchtable", g.labelCounter_ + 2)
        g1 == [newLabels(g, 3) EXCEPT !.switchStack_ = push(@, info),
                                      !.breakTargets_ = push(@, endLabel)]
        g2 == logged(g1, LogEntry("enter", s.kind, endLabel, NoLabel, g))
        g3 == genStmt(s.inner[1], emitLabel(emitJump(g2, tableLabel), bodyLabel))
        g4 == emitLabel(emitJump(g3, endLabel), tableLabel)
        switchInfo == g4.switchStack_[Len(g4.switchStack_)]
        table == genSwitchTable(switchInfo.cases, 1, Variable("x"), g4)
        g5 == emitLabel(emitJump(table, switchInfo.defaultLabel), endLabel)
        g6 == [g5 EXCEPT !.breakTargets_ = pop(@), !.switchStack_ = pop(@)]
    IN  logged(g6, LogEntry("leave", s.kind, endLabel, NoLabel, g6))

\* genCaseStmt: the label is recorded in the innermost SwitchInfo
genCase(s, g) ==
    IF g.switchStack_ = <<>> THEN g
    ELSE LET caseLabel == Lbl("case", g.labelCounter_)
             g1 == emitLabel(newLabels(g, 1), caseLabel)
             g2 == [g1 EXCEPT !.switchStack_[Len(g.switchStack_)].cases =
                                  Append(@, <<0, caseLabel>>)]
         IN  genStmt(s.inner[1], g2)

genBreakStmt(g) ==
    IF g.breakTargets_ # <<>>
    THEN logged(emitJump(g, g.breakTargets_[Len(g.breakTargets_)]),
                LogEntry("jump", "BreakStmt", g.breakTargets_[Len(g.breakTargets_)],
                         NoLabel, g))
    ELSE g

\* a continue that goes where break goes
genContinueStmtToBreakTarget(g) ==
    IF g.breakTargets_ # <<>>
    THEN logged(emitJump(g, g.breakTargets_[Len(g.breakTargets_)]),
                LogEntry("jump", "ContinueStmt", NoLabel,
                         g.breakTargets_[Len(g.breakTargets_)], g))
    ELSE g

genContinueStmt(g) ==
    IF g.continueTargets_ # <<>>
    THEN logged(emitJump(g, g.continueTargets_[Len(g.continueTargets_)]),
                LogEntry("jump", "ContinueStmt", NoLabel,
                         g.continueTargets_[Len(g.continueTargets_)], g))
    ELSE g

genStmt(s, g) ==
    CASE s.kind = "IfStmt" -> genIfStmt(s, g)
      [] s.kind = "WhileStmt" -> genWhileStmt(s, g)
      [] s.kind = "DoWhileStmt" -> genDoWhileStmt(s, g)
      [] s.kind = "ForStmt" -> genForStmt(s, g)
      [] s.kind = "SwitchStmt" -> genSwitch(s, g)
      [] s.kind = "CaseStmt" -> genCase(s, g)
      [] s.kind = "BreakStmt" -> genBreakStmt(g)
      [] s.kind = "ContinueStmt" -> genContinueStmt(g)
      [] s.kind = "LabelStmt" -> genStmt(s.inner[1], emitLabel(g, s.label))
      [] s.kind = "GotoStmt" -> emitJump(g, s.label)
      [] OTHER -> g

NewStmtGenerator ==
    [code |-> <<>>, labelCounter_ |-> 0, tempCounter_ |-> 0, breakTargets_ |-> <<>>,
     continueTargets_ |-> <<>>, switchStack_ |-> <<>>, log |-> <<>>]

SgOff ==
    /\ sgpc = "off"
    /\ funcBody = <<>>
    /\ nextStmt = 1
    /\ gen = NewStmtGenerator

SgInit ==
    /\ sgpc = "analyze"
    /\ funcBody \in SeqsUpTo(StmtsUpTo(MaxStmtDepth), MaxBody) \ {<<>>}
    /\ nextStmt = 1
    /\ gen = NewStmtGenerator

\* SemanticAnalyzer::analyze on the body; main stops when it reports an error
AnalyzeBody ==
    /\ sgpc = "analyze"
    /\ sgpc' = IF \A k \in 1..Len(funcBody) : analyzeStmt(funcBody[k], 0, 0)
               THEN "gen" ELSE "rejected"
    /\ UNCHANGED <<funcBody, nextStmt, gen>>

\* genCompoundStmt, one turn of its loop
GenStmt ==
    /\ sgpc = "gen"
    /\ nextStmt <= Len(funcBody)
    /\ gen' = genStmt(funcBody[nextStmt], gen)
    /\ nextStmt' = nextStmt + 1
    /\ UNCHANGED <<sgpc, funcBody>>

\* genCompoundStmt after its loop
EndBody ==
    /\ sgpc = "gen"
    /\ nextStmt > Len(funcBody)
    /\ sgpc' = "done"
    /\ UNCHANGED <<funcBody, nextStmt, gen>>

----------------------------------------------------------------------------
(* Float pool: CodeGenerator::getFloatLabel on the map floatLiterals_,       *)
(* translateFloatNeg and emitFloatLiterals.  A double is its bit pattern,    *)
(* here the sign bit and the rest of the bits.  floatLiterals_ is a          *)
(* std::unordered_map<double, std::string>: find and operator[] compare      *)
(* keys with ==, which is not the comparison of the bit patterns.  A label   *)
(* is the number after ".LF".                                                *)

MaxFloatRequests == 3

Double(sign, rest) == [sign |-> sign, rest |-> rest]
Doubles == {Double(s, r) : s \in {0, 1}, r \in {"zero", "one"}}
SignMask == Double(1, "zero")
NoFloatLabel == 0 - 1

\* a == b of two doubles that are no NaN, and the comparison of their bits
sameBits(a, b) == a = b
doubleEquals(a, b) == (a.rest = "zero" /\ b.rest = "zero") \/ a = b

\* floatLiterals_.find(value): the entries whose key equals value
find(literals, value) == {k \in 1..Len(literals) : doubleEquals(literals[k].key, value)}

getFloatLabel(literals, counter, value) ==
    LET it == find(literals, value)
    IN  IF it # {}
        THEN [label |-> literals[CHOOSE k \in it : TRUE].label,
              literals |-> literals, counter |-> counter]
        ELSE [label |-> counter,
              literals |-> Append(literals, [key |-> value, label |-> counter]),
              counter |-> counter + 1]

FpOff ==
    /\ fppc = "off"
    /\ floatLiterals_ = <<>>
    /\ floatLabelCounter_ = 0
    /\ labelsGiven = <<>>
    /\ maskLabel = NoFloatLabel
    /\ rodataSection_ = <<>>

FpInit ==
    /\ fppc = "quads"
    /\ floatLiterals_ = <<>>
    /\ floatLabelCounter_ = 0
    /\ labelsGiven = <<>>
    /\ maskLabel = NoFloatLabel
    /\ rodataSection_ = <<>>

FpRequest(value) ==
    LET r == getFloatLabel(floatLiterals_, floatLabelCounter_, value)
    IN  /\ floatLiterals_' = r.literals
        /\ floatLabelCounter_' = r.counter
        /\ labelsGiven' = Append(labelsGiven, [value |-> value, label |-> r.label])

\* loadToXmm of a floating constant operand
LoadFloatConstant ==
    /\ fppc = "quads"
    /\ Len(labelsGiven) < MaxFloatRequests
    /\ \E value \in Doubles : FpRequest(value)
    /\ UNCHANGED <<fppc, maskLabel, rodataSection_>>

\* translateFloatNeg: the mask is the constant -0.0 of the pool
TranslateFloatNeg ==
    /\ fppc = "quads"
    /\ Len(labelsGiven) < MaxFloatRequests
    /\ FpRequest(SignMask)
    /\ maskLabel' = getFloatLabel(floatLiterals_, floatLabelCounter_, SignMask).label
    /\ UNCHANGED <<fppc, rodataSection_>>

\* emitFloatLiterals: each entry's label and the bits of its key
EmitFloatLiterals ==
    /\ fppc = "quads"
    /\ rodataSection_' = [k \in 1..Len(floatLiterals_) |->
                             [label |-> floatLiterals_[k].label,
                              quad |-> floatLiterals_[k].key]]
    /\ fppc' = "done"
    /\ UNCHANGED <<floatLiterals_, floatLabelCounter_, labelsGiven, maskLabel>>

----------------------------------------------------------------------------
(* Stack slots: CodeGenerator::emitFunction from the reset of localOffset_  *)
(* on, its parameter loop for parameters passed in registers (there are at  *)
(* most MaxSlots of them, so none is passed on the stack), and getLocation  *)
(* for the variables and temporaries of the quadruples, which asks          *)
(* allocateStack for a slot the first time a name is seen.  The size of an   *)
(* operand is the size of its type: 1, 4 or 8 for scalars, 16 for a long    *)
(* double, 0 for a function, 512 for an array such as char[512].            *)

MaxSlots == 3

SlotNames == {"a", "b", "t0", "t1"}
ParamSizes == {4, 8}
OperandSizes == {0, 1, 4, 8, 16, 512}

FrOff ==
    /\ frpc = "off"
    /\ localOffset_ = 0
    /\ slots = {}
    /\ lastLocation = 0

\* emitFunction, step 1 and the prologue
FrInit ==
    /\ frpc = "params"
    /\ localOffset_ = 0 - CalleeSavedBytes
    /\ slots = {}
    /\ lastLocation = 0

Known(name) == {s \in slots : s.name = name}

\* emitFunction, one turn of the parameter loop: a parameter in a register
PlaceParameter ==
    /\ frpc = "params"
    /\ Cardinality(slots) < MaxSlots
    /\ \E name \in SlotNames, sz \in ParamSizes :
           /\ Known(name) = {}
           /\ LET off == allocateStack(localOffset_, sz, 8)
              IN  /\ localOffset_' = off
                  /\ slots' = slots \cup {[name |-> name, offset |-> off, size |-> sz]}
                  /\ lastLocation' = off
    /\ UNCHANGED frpc

\* emitFunction, step 4 begins
BeginBody ==
    /\ frpc = "params"
    /\ frpc' = "quads"
    /\ UNCHANGED <<localOffset_, slots, lastLocation>>

\* getLocation of a Temp or Variable operand
GetLocation ==
    /\ frpc = "quads"
    /\ \E name \in SlotNames, typeSize \in OperandSizes :
           IF Known(name) # {}
           THEN /\ lastLocation' = (CHOOSE s \in Known(name) : TRUE).offset
                /\ UNCHANGED <<localOffset_, slots>>
           ELSE /\ Cardinality(slots) < MaxSlots
                /\ LET sz == IF typeSize <= 0 THEN 8 ELSE typeSize
                       off == allocateStack(localOffset_, sz, 8)
                   IN  /\ localOffset_' = off
                       /\ slots' = slots \cup {[name |-> name, offset |-> off, size |-> sz]}
                       /\ lastLocation' = off
    /\ UNCHANGED frpc

----------------------------------------------------------------------------
(* Register allocation: RegisterAllocator and XmmAllocator, loadToRegister   *)
(* and loadToXmm with their fallback registers, and the translate routines   *)
(* translateQuad dispatches to.  A routine is the sequence of its statements *)
(* that take a register, release one, or write RAX; the statements between   *)
(* them (the instructions proper) are "emit".  Each statement is one step,   *)
(* so the states inside a routine are visible.  A routine has no early       *)
(* return, and its branches depend on the opcode, on the size of the type,   *)
(* on the kinds of the call's stack arguments, on the callee and on the      *)
(* returned value only: these make up the quadruple drawn in TranslateQuad.  *)

MaxQuads == 2
MaxStackArgs == 2

\* enum class Register and enum class XmmRegister, in declaration order
Register ==
    <<"rax", "rbx", "rcx", "rdx", "rsi", "rdi", "rbp", "rsp",
      "r8", "r9", "r10", "r11", "r12", "r13", "r14", "r15">>
XmmRegister ==
    <<"xmm0", "xmm1", "xmm2", "xmm3", "xmm4", "xmm5", "xmm6", "xmm7",
      "xmm8", "xmm9", "xmm10", "xmm11", "xmm12", "xmm13", "xmm14", "xmm15">>

\* RegisterAllocator::RegisterAllocator and XmmAllocator::XmmAllocator
NewRegisterAllocator ==
    [available_ |-> {"rbx", "rcx", "rdx", "rsi", "rdi", "r8", "r9", "r10",
                     "r11", "r12", "r13", "r14", "r15"},
     used_ |-> {}]
NewXmmAllocator ==
    [available_ |-> {"xmm8", "xmm9", "xmm10", "xmm11", "xmm12", "xmm13", "xmm14",
                     "xmm15", "xmm2", "xmm3", "xmm4", "xmm5", "xmm6", "xmm7"},
     used_ |-> {}]

\* the first register of a list that is in a set
firstOf(list, S) ==
    list[CHOOSE i \in DOMAIN list :
             /\ list[i] \in S
             /\ \A j \in 1..(i - 1) : list[j] \notin S]

\* the body both allocate functions share: NONE when nothing is available,
\* else the first available preferred register, else *available_.begin()
takeFrom(ra, preferred, declared) ==
    IF ra.available_ = {}
    THEN [reg |-> "NONE", alloc |-> ra]
    ELSE LET r == IF \E i \in DOMAIN preferred : preferred[i] \in ra.available_
                  THEN firstOf(preferred, ra.available_)
                  ELSE firstOf(declared, ra.available_)
         IN  [reg |-> r,
              alloc |-> [available_ |-> ra.available_ \ {r},
                         used_ |-> ra.used_ \cup {r}]]

\* an allocator that never has a register
allocateNone(ra) == [reg |-> "NONE", alloc |-> ra]

\* RegisterAllocator::allocate
allocate(ra) ==
    takeFrom(ra, <<"r10", "r11", "rcx", "rdx", "rsi", "rdi", "r8", "r9">>, Register)

\* XmmAllocator::allocate
allocateXmm(ra) ==
    takeFrom(ra, <<"xmm8", "xmm9", "xmm10", "xmm11", "xmm12", "xmm13", "xmm14",
                   "xmm15">>, XmmRegister)

\* a release that gives nothing back
releaseNothing(ra, r) == ra

\* RegisterAllocator::release
release(ra, r) ==
    IF r \notin {"NONE", "rax", "rsp", "rbp"}
    THEN [available_ |-> ra.available_ \cup {r}, used_ |-> ra.used_ \ {r}]
    ELSE ra

\* XmmAllocator::release
releaseXmm(ra, r) ==
    IF r # "NONE"
    THEN [available_ |-> ra.available_ \cup {r}, used_ |-> ra.used_ \ {r}]
    ELSE ra

\* the result of an allocation, with the register the caller falls back to
orElse(taken, fallback) ==
    IF taken.reg = "NONE" THEN [reg |-> fallback, alloc |-> taken.alloc] ELSE taken

\* CodeGenerator::loadToRegister: the register the operand is loaded into
loadToRegister(ra) == orElse(allocate(ra), "rax")

\* CodeGenerator::loadToXmm
loadToXmmRegister(ra) == orElse(allocateXmm(ra), "xmm0")

\* ---- statements of a routine ----
Load(v)        == [op |-> "loadToRegister", v |-> v]   \* Register v = loadToRegister(..)
Allocate(v)    == [op |-> "allocate", v |-> v]         \* regAlloc_.allocate(), RAX if NONE
LoadXmm(v)     == [op |-> "loadToXmm", v |-> v]        \* XmmRegister v = loadToXmm(..)
AllocateXmm(v) == [op |-> "allocateXmm", v |-> v]      \* xmmAlloc_.allocate(), XMM0 if NONE
AllocateMask(v) == [op |-> "allocateMask", v |-> v]    \* xmmAlloc_.allocate(), XMM1 if NONE
Release(v)     == [op |-> "release", v |-> v]          \* regAlloc_.release(v)
ReleaseXmm(v)  == [op |-> "releaseXmm", v |-> v]       \* xmmAlloc_.release(v)
MoveToRax(v, value) ==                                  \* movq v, %rax (unless v is RAX)
    [op |-> "moveToRax", v |-> v, value |-> value]
WriteRax(v)    == [op |-> "writeRax", v |-> v]         \* an instruction leaves value v in RAX
ReadRax(v)     == [op |-> "readRax", v |-> v]          \* the last use of value v in RAX
Emit           == [op |-> "emit", v |-> "none"]        \* instructions that touch no allocator

Locals ==
    {"left", "right", "reg", "addr", "val", "base", "index", "intReg", "xmmReg",
     "xmm", "funcReg", "mask", "result"}
RaxValues == {"dividend", "floatCount", "callResult", "returnValue"}

\* ---- the routines ----
\* translateArithmetic
arithmeticRoutine(q) ==
    <<Load("left"), Load("right")>>
    \o (IF q.opcode \in {"Div", "Mod"}
        THEN <<MoveToRax("left", "dividend"), Emit, ReadRax("dividend")>>   \* movq left,%rax; cqto; idivq; movq ..,left
        ELSE <<Emit>>)
    \o <<Emit, Release("left"), Release("right")>>

\* translateNeg, translateBitNot, translateLogNot, translateMemberAddr,
\* translateJumpTrue, translateJumpFalse, and the small branch of
\* translateAssign and of translateLoad: one operand in one register
unaryRoutine == <<Load("reg"), Emit, Release("reg")>>

\* translateBitwise: the shift count goes to %rcx without an allocation
bitwiseRoutine(q) ==
    <<Load("left")>>
    \o (IF q.opcode \in {"Shl", "Shr"}
        THEN <<Emit>>
        ELSE <<Load("right"), Emit, Release("right")>>)
    \o <<Emit, Release("left")>>

\* translateComparison, translateLogical
binaryRoutine == <<Load("left"), Load("right"), Emit, Release("left"), Release("right")>>

\* translateAssign: a value of more than 8 bytes is copied through %r10
assignRoutine(q) == IF q.typeSize > 8 THEN <<Emit>> ELSE unaryRoutine

\* translateLoad: more than 8 bytes are copied through %r11 and %r10 after
\* the address register is released
loadRoutine(q) ==
    IF q.typeSize > 8
    THEN <<Load("addr"), Emit, Release("addr"), Emit>>
    ELSE <<Load("addr"), Emit, Release("addr")>>

\* translateStore
storeRoutine == <<Load("val"), Load("addr"), Emit, Release("val"), Release("addr")>>

\* translateLoadAddr
loadAddrRoutine == <<Allocate("reg"), Emit, Release("reg")>>

\* translateIndexAddr
indexAddrRoutine ==
    <<Load("base"), Load("index"), Emit, Release("base"), Release("index")>>

\* translateCast
castRoutine(q) ==
    IF q.opcode = "IntToFloat"
    THEN <<Load("intReg"), AllocateXmm("xmmReg"), Emit,
           Release("intReg"), ReleaseXmm("xmmReg")>>
    ELSE IF q.opcode = "FloatToInt"
    THEN <<LoadXmm("xmmReg"), Allocate("intReg"), Emit,
           ReleaseXmm("xmmReg"), Release("intReg")>>
    ELSE unaryRoutine

\* translateCall, the loop over the stack arguments, last one first
RECURSIVE pushRoutine(_)
pushRoutine(stackKinds) ==
    IF stackKinds = <<>>
    THEN <<>>
    ELSE (IF stackKinds[Len(stackKinds)] = "Float"
          THEN <<LoadXmm("xmm"), Emit, ReleaseXmm("xmm")>>
          ELSE <<Load("reg"), Emit, Release("reg")>>)
         \o pushRoutine(SubSeq(stackKinds, 1, Len(stackKinds) - 1))

\* translateCall: the register arguments are written to their registers
\* directly; movl $floatIdx, %eax precedes the call
callRoutine(q) ==
    pushRoutine(q.stackKinds)
    \o <<Emit, WriteRax("floatCount")>>
    \o (IF q.callee = "Label"
        THEN <<ReadRax("floatCount")>>
        ELSE <<Load("funcReg"), ReadRax("floatCount"), Release("funcReg")>>)
    \o (IF q.value \in {"Int", "Pair"}
        THEN <<WriteRax("callResult"), ReadRax("callResult")>>
        ELSE <<Emit>>)

\* translateReturn
returnRoutine(q) ==
    (IF q.value = "None" THEN <<>>
     ELSE IF q.value = "Float" THEN <<LoadXmm("xmm"), Emit, ReleaseXmm("xmm")>>
     ELSE IF q.value = "Pair" THEN <<WriteRax("returnValue")>>
     ELSE <<Load("reg"), MoveToRax("reg", "returnValue"), Release("reg")>>)
    \o <<ReadRax("returnValue")>>

\* translateFloatArithmetic
floatArithmeticRoutine ==
    <<LoadXmm("left"), LoadXmm("right"), Emit, ReleaseXmm("left"), ReleaseXmm("right")>>

\* translateFloatNeg
floatNegRoutine ==
    <<LoadXmm("reg"), AllocateMask("mask"), Emit, ReleaseXmm("reg"), ReleaseXmm("mask")>>

\* translateFloatComparison
floatComparisonRoutine ==
    <<LoadXmm("left"), LoadXmm("right"), Allocate("result"), Emit,
      ReleaseXmm("left"), ReleaseXmm("right"), Release("result")>>

ArithmeticOps == {"Add", "Sub", "Mul", "Div", "Mod"}
FloatArithmeticOps == {"FAdd", "FSub", "FMul", "FDiv"}
BitwiseOps == {"BitAnd", "BitOr", "BitXor", "Shl", "Shr"}
ComparisonOps == {"Lt", "Gt", "Le", "Ge", "Eq", "Ne"}
FloatComparisonOps == {"FLt", "FGt", "FLe", "FGe", "FEq", "FNe"}
CastOps == {"IntToFloat", "FloatToInt", "IntExtend", "IntTrunc", "PtrToInt", "IntToPtr"}
NoRegisterOps == {"Jump", "Label", "Param", "Nop", "Comment"}

\* translateQuad: the routine of the opcode
routineOf(q) ==
    IF q.opcode \in ArithmeticOps THEN arithmeticRoutine(q)
    ELSE IF q.opcode \in {"Neg", "BitNot", "LogicalNot", "MemberAddr",
                          "JumpTrue", "JumpFalse"} THEN unaryRoutine
    ELSE IF q.opcode \in FloatArithmeticOps THEN floatArithmeticRoutine
    ELSE IF q.opcode = "FNeg" THEN floatNegRoutine
    ELSE IF q.opcode \in BitwiseOps THEN bitwiseRoutine(q)
    ELSE IF q.opcode \in ComparisonOps \cup {"LogicalAnd", "LogicalOr"} THEN binaryRoutine
    ELSE IF q.opcode \in FloatComparisonOps THEN floatComparisonRoutine
    ELSE IF q.opcode = "Assign" THEN assignRoutine(q)
    ELSE IF q.opcode = "Load" THEN loadRoutine(q)
    ELSE IF q.opcode = "Store" THEN storeRoutine
    ELSE IF q.opcode = "LoadAddr" THEN loadAddrRoutine
    ELSE IF q.opcode = "IndexAddr" THEN indexAddrRoutine
    ELSE IF q.opcode \in CastOps THEN castRoutine(q)
    ELSE IF q.opcode = "Call" THEN callRoutine(q)
    ELSE IF q.opcode = "Return" THEN returnRoutine(q)
    ELSE <<Emit>>

\* ---- the quadruples ----
Quad(opcode, typeSize, stackKinds, callee, value) ==
    [opcode |-> opcode, typeSize |-> typeSize, stackKinds |-> stackKinds,
     callee |-> callee, value |-> value]

StackKinds ==
    UNION {[1..n -> {"Int", "Float"}] : n \in 0..MaxStackArgs}

Quads ==
    {Quad(o, 8, <<>>, "None", "None") :
        o \in ArithmeticOps \cup FloatArithmeticOps \cup BitwiseOps \cup ComparisonOps
              \cup FloatComparisonOps \cup CastOps \cup NoRegisterOps
              \cup {"Neg", "FNeg", "BitNot", "LogicalAnd", "LogicalOr", "LogicalNot",
                    "Store", "LoadAddr", "IndexAddr", "MemberAddr",
                    "JumpTrue", "JumpFalse"}}
    \cup {Quad(o, sz, <<>>, "None", "None") : o \in {"Assign", "Load"}, sz \in {1, 4, 8, 16}}
    \cup {Quad("Call", 8, ks, c, val) :
             ks \in StackKinds, c \in {"Label", "Temp"},
             val \in {"None", "Int", "Float", "Pair"}}
    \cup {Quad("Return", 8, <<>>, "None", val) : val \in {"None", "Int", "Float", "Pair"}}

NoQuad == Quad("Nop", 8, <<>>, "None", "None")
NothingHeld == [v \in Locals |-> "NONE"]

RaOff ==
    /\ rapc = "off"
    /\ regAlloc_ = NewRegisterAllocator
    /\ xmmAlloc_ = NewXmmAllocator
    /\ quadNow = NoQuad
    /\ todo = <<>>
    /\ held = NothingHeld
    /\ raxLive = {}
    /\ quadsDone = 0

\* the CodeGenerator after construction, before the first quadruple
RaInit ==
    /\ rapc = "idle"
    /\ regAlloc_ = NewRegisterAllocator
    /\ xmmAlloc_ = NewXmmAllocator
    /\ quadNow = NoQuad
    /\ todo = <<>>
    /\ held = NothingHeld
    /\ raxLive = {}
    /\ quadsDone = 0

\* translateQuad is entered with the next quadruple of the function
TranslateQuad ==
    /\ rapc = "idle"
    /\ quadsDone < MaxQuads
    /\ \E q \in Quads :
           /\ quadNow' = q
           /\ todo' = routineOf(q)
    /\ rapc' = "busy"
    /\ held' = NothingHeld
    /\ UNCHANGED <<regAlloc_, xmmAlloc_, raxLive, quadsDone>>

Next1 == rapc = "busy" /\ todo # <<>>
Rest == todo' = Tail(todo)

\* a general-purpose register is taken: loadToRegister, or allocate with
\* the caller's "if NONE then RAX"
TakeRegister ==
    /\ Next1
    /\ Head(todo).op \in {"loadToRegister", "allocate"}
    /\ LET taken == IF Head(todo).op = "loadToRegister"
                    THEN loadToRegister(regAlloc_)
                    ELSE orElse(allocate(regAlloc_), "rax")
           v == Head(todo).v
       IN  /\ regAlloc_' = taken.alloc
           /\ held' = [held EXCEPT ![v] = taken.reg]
           /\ raxLive' = IF taken.reg = "rax" THEN raxLive \cup {v} ELSE raxLive
    /\ Rest
    /\ UNCHANGED <<rapc, xmmAlloc_, quadNow, quadsDone>>

\* an XMM register is taken: loadToXmm, or allocate with the caller's fallback
TakeXmmRegister ==
    /\ Next1
    /\ Head(todo).op \in {"loadToXmm", "allocateXmm", "allocateMask"}
    /\ LET taken == IF Head(todo).op = "loadToXmm"
                    THEN loadToXmmRegister(xmmAlloc_)
                    ELSE IF Head(todo).op = "allocateXmm"
                    THEN orElse(allocateXmm(xmmAlloc_), "xmm0")
                    ELSE orElse(allocateXmm(xmmAlloc_), "xmm1")
       IN  /\ xmmAlloc_' = taken.alloc
           /\ held' = [held EXCEPT ![Head(todo).v] = taken.reg]
    /\ Rest
    /\ UNCHANGED <<rapc, regAlloc_, quadNow, raxLive, quadsDone>>

\* regAlloc_.release(v): the value v held is needed no longer
ReleaseRegister ==
    /\ Next1
    /\ Head(todo).op = "release"
    /\ regAlloc_' = release(regAlloc_, held[Head(todo).v])
    /\ raxLive' = raxLive \ {Head(todo).v}
    /\ Rest
    /\ UNCHANGED <<rapc, xmmAlloc_, quadNow, held, quadsDone>>

\* xmmAlloc_.release(v)
ReleaseXmmRegister ==
    /\ Next1
    /\ Head(todo).op = "releaseXmm"
    /\ xmmAlloc_' = releaseXmm(xmmAlloc_, held[Head(todo).v])
    /\ Rest
    /\ UNCHANGED <<rapc, regAlloc_, quadNow, held, raxLive, quadsDone>>

\* an instruction writes RAX: the dividend or the returned value moved from
\* the register of v (a second value unless v is in RAX already), the count
\* of XMM arguments, the result of a call
UseRax ==
    /\ Next1
    /\ Head(todo).op \in {"moveToRax", "writeRax"}
    /\ raxLive' = IF Head(todo).op = "writeRax"
                  THEN raxLive \cup {Head(todo).v}
                  ELSE IF held[Head(todo).v] = "rax"
                  THEN raxLive
                  ELSE raxLive \cup {Head(todo).value}
    /\ Rest
    /\ UNCHANGED <<rapc, regAlloc_, xmmAlloc_, quadNow, held, quadsDone>>

\* the value an instruction left in RAX is consumed: idivq's result moved
\* back, the call reached, the call's result stored, the jump to the exit
LeaveRax ==
    /\ Next1
    /\ Head(todo).op = "readRax"
    /\ raxLive' = raxLive \ {Head(todo).v}
    /\ Rest
    /\ UNCHANGED <<rapc, regAlloc_, xmmAlloc_, quadNow, held, quadsDone>>

\* instructions that use the registers taken
EmitLines ==
    /\ Next1
    /\ Head(todo).op = "emit"
    /\ Rest
    /\ UNCHANGED <<rapc, regAlloc_, xmmAlloc_, quadNow, held, raxLive, quadsDone>>

\* the routine returns to emitFunction's loop over the quadruples
EndQuad ==
    /\ rapc = "busy"
    /\ todo = <<>>
    /\ rapc' = "idle"
    /\ quadsDone' = quadsDone + 1
    /\ UNCHANGED <<regAlloc_, xmmAlloc_, quadNow, todo, held, raxLive>>

raOthers == <<cgVars, irVars, mxVars, psVars, ppVars, incVars, lxVars, drVars, jmVars, tyVars, rlVars, syVars, sgVars, fpVars, frVars>>

InitRegisters == RaInit /\ CgOff /\ IrOff /\ MxOff /\ PsOff /\ PpOff /\ IncOff /\ LxOff /\ DrOff /\ JmOff /\ TyOff /\ RlOff /\ SyOff /\ SgOff /\ FpOff /\ FrOff

NextRegisters ==
    \/ TranslateQuad /\ UNCHANGED raOthers
    \/ TakeRegister /\ UNCHANGED raOthers
    \/ TakeXmmRegister /\ UNCHANGED raOthers
    \/ ReleaseRegister /\ UNCHANGED raOthers
    \/ ReleaseXmmRegister /\ UNCHANGED raOthers
    \/ UseRax /\ UNCHANGED raOthers
    \/ LeaveRax /\ UNCHANGED raOthers
    \/ EmitLines /\ UNCHANGED raOthers
    \/ EndQuad /\ UNCHANGED raOthers

----------------------------------------------------------------------------
(* Specifications *)

cgOthers == <<irVars, mxVars, psVars, ppVars, incVars, lxVars, drVars, jmVars, tyVars, rlVars, syVars, sgVars, fpVars, frVars, raVars>>
irOthers == <<cgVars, mxVars, psVars, ppVars, incVars, lxVars, drVars, jmVars, tyVars, rlVars, syVars, sgVars, fpVars, frVars, raVars>>
mxOthers == <<cgVars, irVars, psVars, ppVars, incVars, lxVars, drVars, jmVars, tyVars, rlVars, syVars, sgVars, fpVars, frVars, raVars>>
psOthers == <<cgVars, irVars, mxVars, ppVars, incVars, lxVars, drVars, jmVars, tyVars, rlVars, syVars, sgVars, fpVars, frVars, raVars>>
\* the preprocessor owns macros_ as well
ppOthers == <<cgVars, irVars, mxpc, input, mstack, output, psVars, incVars, lxVars, drVars, jmVars, tyVars, rlVars, syVars, sgVars, fpVars, frVars, raVars>>
incOthers == <<cgVars, irVars, mxVars, psVars, ppVars, lxVars, drVars, jmVars, tyVars, rlVars, syVars, sgVars, fpVars, frVars, raVars>>

InitCall == CgInit /\ IrOff /\ MxOff /\ PsOff /\ PpOff /\ IncOff /\ LxOff /\ DrOff /\ JmOff /\ TyOff /\ RlOff /\ SyOff /\ SgOff /\ FpOff /\ FrOff /\ RaOff
NextCall ==
    \/ EmitCaller /\ UNCHANGED cgOthers
    \/ translateParam /\ UNCHANGED cgOthers
    \/ translateCall /\ UNCHANGED cgOthers
    \/ EmitCallee /\ UNCHANGED cgOthers
    \/ ExecPush /\ UNCHANGED cgOthers
    \/ ExecPop /\ UNCHANGED cgOthers
    \/ ExecMovRspRbp /\ UNCHANGED cgOthers
    \/ ExecLea /\ UNCHANGED cgOthers
    \/ ExecSub /\ UNCHANGED cgOthers
    \/ ExecAdd /\ UNCHANGED cgOthers
    \/ ExecMovsdToRsp /\ UNCHANGED cgOthers
    \/ ExecLoadReg /\ UNCHANGED cgOthers
    \/ ExecSpill /\ UNCHANGED cgOthers
    \/ ExecMark /\ UNCHANGED cgOthers
    \/ ExecCall /\ UNCHANGED cgOthers
    \/ ExecRet /\ UNCHANGED cgOthers
    \/ ExecEnd /\ UNCHANGED cgOthers
SpecCall == InitCall /\ [][NextCall]_vars

InitLogic == IrInitLogic /\ CgOff /\ MxOff /\ PsOff /\ PpOff /\ IncOff /\ LxOff /\ DrOff /\ JmOff /\ TyOff /\ RlOff /\ SyOff /\ SgOff /\ FpOff /\ FrOff /\ RaOff
NextLogic ==
    \/ GenLogical /\ UNCHANGED irOthers
    \/ ExecQuadCall /\ UNCHANGED irOthers
    \/ ExecQuadAssign /\ UNCHANGED irOthers
    \/ ExecQuadLabel /\ UNCHANGED irOthers
    \/ ExecQuadJump /\ UNCHANGED irOthers
    \/ ExecQuadJumpTrue /\ UNCHANGED irOthers
    \/ ExecQuadJumpFalse /\ UNCHANGED irOthers
    \/ ExecQuadEnd /\ UNCHANGED irOthers
SpecLogic == InitLogic /\ [][NextLogic]_vars

InitCallExpr == IrInitCallExpr /\ CgOff /\ MxOff /\ PsOff /\ PpOff /\ IncOff /\ LxOff /\ DrOff /\ JmOff /\ TyOff /\ RlOff /\ SyOff /\ SgOff /\ FpOff /\ FrOff /\ RaOff
NextCallExpr ==
    \/ GenCallExpr /\ UNCHANGED irOthers
SpecCallExpr == InitCallExpr /\ [][NextCallExpr]_vars

InitSwitch == IrInitSwitch /\ CgOff /\ MxOff /\ PsOff /\ PpOff /\ IncOff /\ LxOff /\ DrOff /\ JmOff /\ TyOff /\ RlOff /\ SyOff /\ SgOff /\ FpOff /\ FrOff /\ RaOff
NextSwitch ==
    \/ GenSwitch /\ UNCHANGED irOthers
    \/ ExecQuadCall /\ UNCHANGED irOthers
    \/ ExecQuadEq /\ UNCHANGED irOthers
    \/ ExecQuadLabel /\ UNCHANGED irOthers
    \/ ExecQuadJump /\ UNCHANGED irOthers
    \/ ExecQuadJumpTrue /\ UNCHANGED irOthers
    \/ ExecQuadEnd /\ UNCHANGED irOthers
SpecSwitch == InitSwitch /\ [][NextSwitch]_vars

InitMacro == MxInit /\ CgOff /\ IrOff /\ PsOff /\ PpOff /\ IncOff /\ LxOff /\ DrOff /\ JmOff /\ TyOff /\ RlOff /\ SyOff /\ SgOff /\ FpOff /\ FrOff /\ RaOff
NextMacro ==
    \/ ExpandLine /\ UNCHANGED mxOthers
    \/ ScanCopy /\ UNCHANGED mxOthers
    \/ ScanObjectLike /\ UNCHANGED mxOthers
    \/ ScanFunctionLike /\ UNCHANGED mxOthers
    \/ PreExpandArg /\ UNCHANGED mxOthers
    \/ SubstituteAndRescan /\ UNCHANGED mxOthers
    \/ ReturnResult /\ UNCHANGED mxOthers
SpecMacro == InitMacro /\ [][NextMacro]_vars

InitParser == PsInit /\ CgOff /\ IrOff /\ MxOff /\ PpOff /\ IncOff /\ LxOff /\ DrOff /\ JmOff /\ TyOff /\ RlOff /\ SyOff /\ SgOff /\ FpOff /\ FrOff /\ RaOff
NextParser ==
    \/ ParseTopLevel /\ UNCHANGED psOthers
    \/ ParseBlockItem /\ UNCHANGED psOthers
    \/ CloseBlock /\ UNCHANGED psOthers
    \/ ReturnUnit /\ UNCHANGED psOthers
SpecParser == InitParser /\ [][NextParser]_vars

InitPreprocess == PpInit /\ CgOff /\ IrOff /\ MxOff /\ PsOff /\ IncOff /\ LxOff /\ DrOff /\ JmOff /\ TyOff /\ RlOff /\ SyOff /\ SgOff /\ FpOff /\ FrOff /\ RaOff
NextPreprocess ==
    \/ Preprocess /\ UNCHANGED ppOthers
    \/ Conditional /\ UNCHANGED ppOthers
    \/ SkipInactive /\ UNCHANGED ppOthers
    \/ Include /\ UNCHANGED ppOthers
    \/ Define /\ UNCHANGED ppOthers
    \/ Undef /\ UNCHANGED ppOthers
    \/ EmitLine /\ UNCHANGED ppOthers
    \/ EndOfFile /\ UNCHANGED ppOthers
SpecPreprocess == InitPreprocess /\ [][NextPreprocess]_vars

InitInclude == IncInit /\ CgOff /\ IrOff /\ MxOff /\ PsOff /\ PpOff /\ LxOff /\ DrOff /\ JmOff /\ TyOff /\ RlOff /\ SyOff /\ SgOff /\ FpOff /\ FrOff /\ RaOff
NextInclude ==
    \/ AddIncludePath /\ UNCHANGED incOthers
    \/ ResolveInclude /\ UNCHANGED incOthers
SpecInclude == InitInclude /\ [][NextInclude]_vars

lxOthers == <<cgVars, irVars, mxVars, psVars, ppVars, incVars, drVars, jmVars, tyVars, rlVars, syVars, sgVars, fpVars, frVars, raVars>>

InitLexer == LxInit /\ CgOff /\ IrOff /\ MxOff /\ PsOff /\ PpOff /\ IncOff /\ DrOff /\ JmOff /\ TyOff /\ RlOff /\ SyOff /\ SgOff /\ FpOff /\ FrOff /\ RaOff
NextLexer ==
    \/ ScanToken /\ UNCHANGED lxOthers
    \/ ScanEndOfFile /\ UNCHANGED lxOthers
SpecLexer == InitLexer /\ [][NextLexer]_vars

drOthers == <<cgVars, irVars, mxVars, psVars, ppVars, incVars, lxVars, jmVars, tyVars, rlVars, syVars, sgVars, fpVars, frVars, raVars>>

InitDriver == DrInit /\ CgOff /\ IrOff /\ MxOff /\ PsOff /\ PpOff /\ IncOff /\ LxOff /\ JmOff /\ TyOff /\ RlOff /\ SyOff /\ SgOff /\ FpOff /\ FrOff /\ RaOff
NextDriver ==
    \/ LexOnly /\ UNCHANGED drOthers
    \/ Parse /\ UNCHANGED drOthers
    \/ ParseFatal /\ UNCHANGED drOthers
    \/ Semantic /\ UNCHANGED drOthers
    \/ IRGeneration /\ UNCHANGED drOthers
    \/ CodeGeneration /\ UNCHANGED drOthers
SpecDriver == InitDriver /\ [][NextDriver]_vars

jmOthers == <<cgVars, irVars, mxVars, psVars, ppVars, incVars, lxVars, drVars, tyVars, rlVars, syVars, sgVars, fpVars, frVars, raVars>>

InitJump == JmInit /\ CgOff /\ IrOff /\ MxOff /\ PsOff /\ PpOff /\ IncOff /\ LxOff /\ DrOff /\ TyOff /\ RlOff /\ SyOff /\ SgOff /\ FpOff /\ FrOff /\ RaOff
NextJump ==
    \/ EnterLoop /\ UNCHANGED jmOthers
    \/ EnterSwitch /\ UNCHANGED jmOthers
    \/ EnterCompound /\ UNCHANGED jmOthers
    \/ LeaveStmt /\ UNCHANGED jmOthers
    \/ AnalyzeBreak /\ UNCHANGED jmOthers
    \/ AnalyzeContinue /\ UNCHANGED jmOthers
SpecJump == InitJump /\ [][NextJump]_vars

tyOthers == <<cgVars, irVars, mxVars, psVars, ppVars, incVars, lxVars, drVars, jmVars, rlVars, syVars, sgVars, fpVars, frVars, raVars>>

InitCompatible == TyInitCompatible /\ CgOff /\ IrOff /\ MxOff /\ PsOff /\ PpOff /\ IncOff /\ LxOff /\ DrOff /\ JmOff /\ RlOff /\ SyOff /\ SgOff /\ FpOff /\ FrOff /\ RaOff
NextCompatible ==
    \/ AreTypesCompatible /\ UNCHANGED tyOthers
SpecCompatible == InitCompatible /\ [][NextCompatible]_vars

InitCommonType == TyInitCommon /\ CgOff /\ IrOff /\ MxOff /\ PsOff /\ PpOff /\ IncOff /\ LxOff /\ DrOff /\ JmOff /\ RlOff /\ SyOff /\ SgOff /\ FpOff /\ FrOff /\ RaOff
NextCommonType ==
    \/ AreTypesCompatible /\ UNCHANGED tyOthers
    \/ GetCommonType /\ UNCHANGED tyOthers
SpecCommonType == InitCommonType /\ [][NextCommonType]_vars

rlOthers == <<cgVars, irVars, mxVars, psVars, ppVars, incVars, lxVars, drVars, jmVars, tyVars, syVars, sgVars, fpVars, frVars, raVars>>

InitRecord == RlInit /\ CgOff /\ IrOff /\ MxOff /\ PsOff /\ PpOff /\ IncOff /\ LxOff /\ DrOff /\ JmOff /\ TyOff /\ SyOff /\ SgOff /\ FpOff /\ FrOff /\ RaOff
NextRecord ==
    \/ AnalyzeField /\ UNCHANGED rlOthers
    \/ PromoteAnonymousStruct /\ UNCHANGED rlOthers
    \/ PromoteAnonymousUnion /\ UNCHANGED rlOthers
    \/ CompleteRecord /\ UNCHANGED rlOthers
    \/ ResolveRecordType /\ UNCHANGED rlOthers
SpecRecord == InitRecord /\ [][NextRecord]_vars

syOthers == <<cgVars, irVars, mxVars, psVars, ppVars, incVars, lxVars, drVars, jmVars, tyVars, rlVars, sgVars, fpVars, frVars, raVars>>

InitSymbols == SyInit /\ CgOff /\ IrOff /\ MxOff /\ PsOff /\ PpOff /\ IncOff /\ LxOff /\ DrOff /\ JmOff /\ TyOff /\ RlOff /\ SgOff /\ FpOff /\ FrOff /\ RaOff
NextSymbols ==
    \/ EnterFunction /\ UNCHANGED syOthers
    \/ EnterBlock /\ UNCHANGED syOthers
    \/ ExitScope /\ UNCHANGED syOthers
    \/ AddParameter /\ UNCHANGED syOthers
    \/ AddVariable /\ UNCHANGED syOthers
    \/ AddEnumConstant /\ UNCHANGED syOthers
SpecSymbols == InitSymbols /\ [][NextSymbols]_vars

sgOthers == <<cgVars, irVars, mxVars, psVars, ppVars, incVars, lxVars, drVars, jmVars, tyVars, rlVars, syVars, fpVars, frVars, raVars>>

InitStmtGen == SgInit /\ CgOff /\ IrOff /\ MxOff /\ PsOff /\ PpOff /\ IncOff /\ LxOff /\ DrOff /\ JmOff /\ TyOff /\ RlOff /\ SyOff /\ FpOff /\ FrOff /\ RaOff
NextStmtGen ==
    \/ AnalyzeBody /\ UNCHANGED sgOthers
    \/ GenStmt /\ UNCHANGED sgOthers
    \/ EndBody /\ UNCHANGED sgOthers
SpecStmtGen == InitStmtGen /\ [][NextStmtGen]_vars

fpOthers == <<cgVars, irVars, mxVars, psVars, ppVars, incVars, lxVars, drVars, jmVars, tyVars, rlVars, syVars, sgVars, frVars, raVars>>

InitFloatPool == FpInit /\ CgOff /\ IrOff /\ MxOff /\ PsOff /\ PpOff /\ IncOff /\ LxOff /\ DrOff /\ JmOff /\ TyOff /\ RlOff /\ SyOff /\ SgOff /\ FrOff /\ RaOff
NextFloatPool ==
    \/ LoadFloatConstant /\ UNCHANGED fpOthers
    \/ TranslateFloatNeg /\ UNCHANGED fpOthers
    \/ EmitFloatLiterals /\ UNCHANGED fpOthers
SpecFloatPool == InitFloatPool /\ [][NextFloatPool]_vars

frOthers == <<cgVars, irVars, mxVars, psVars, ppVars, incVars, lxVars, drVars, jmVars, tyVars, rlVars, syVars, sgVars, fpVars, raVars>>

InitFrame == FrInit /\ CgOff /\ IrOff /\ MxOff /\ PsOff /\ PpOff /\ IncOff /\ LxOff /\ DrOff /\ JmOff /\ TyOff /\ RlOff /\ SyOff /\ SgOff /\ FpOff /\ RaOff
NextFrame ==
    \/ PlaceParameter /\ UNCHANGED frOthers
    \/ BeginBody /\ UNCHANGED frOthers
    \/ GetLocation /\ UNCHANGED frOthers
SpecFrame == InitFrame /\ [][NextFrame]_vars

SpecRegisters == InitRegisters /\ [][NextRegisters]_vars

----------------------------------------------------------------------------
(* Claims about the call sequence *)

AtCall == Running /\ ip[1] = "caller" /\ Cur.op = "call"
AtCalleeBody == Running /\ ip[1] = "callee" /\ Cur.op = "body"

\* C1: in every emitted function entered with rsp congruent to 8 modulo 16,
\* rsp is a multiple of 16 at every emitted call instruction, for any number
\* of stack-passed arguments.
C1_RspAlignedAtCall == AtCall => rsp % 16 = 0

\* what the code does instead: rsp is 8 modulo 16 at every call
C1_RspOffByEightAtCall == AtCall => rsp % 16 = 8

\* the number of arguments of the given kind class among the first k
KindRank(k, float) ==
    Cardinality({j \in 1..k : (paramKinds[j] = "float") = float})
\* the number of arguments among the first k that go to the stack
ExcessRank(k) ==
    Cardinality({j \in 1..k :
        KindRank(j, paramKinds[j] = "float") >
            (IF paramKinds[j] = "float" THEN Len(FloatParamRegs) ELSE Len(IntParamRegs))})
InRegister(k) ==
    KindRank(k, paramKinds[k] = "float") <=
        (IF paramKinds[k] = "float" THEN Len(FloatParamRegs) ELSE Len(IntParamRegs))
HoldsArg(addr, k) == addr \in DOMAIN mem /\ mem[addr] = k

----------------------------------------------------------------------------
(* Claims about the lowering of switch and of the logical operators *)

CaseLabelQuads ==
    SelectSeq(code, LAMBDA q : q.op = "Label" /\ q.result.s \in {"case", "default"})
ItemLabel(i) == CaseLabelQuads[i].result
EndSwitchLabel ==
    code[CHOOSE i \in 1..Len(code) : code[i].op = "Label" /\ code[i].result.s = "endswitch"].result
MinOf(S) == CHOOSE x \in S : \A y \in S : x <= y

\* the target linear search of the label list gives, each label taken at the
\* value LabelValue gives it
SearchTarget(LabelValue(_)) ==
    LET items == stmt.items
        hits == {i \in 1..Len(items) :
                    items[i].kind = "case" /\ LabelValue(items[i].value) = condValue}
        defaults == {i \in 1..Len(items) : items[i].kind = "default"}
    IN  IF hits # {} THEN ItemLabel(MinOf(hits))
        ELSE IF defaults # {} THEN ItemLabel(MinOf(defaults))
        ELSE EndSwitchLabel

\* C3: for every switch whose case labels are distinct integer constant
\* expressions and every value of the controlling expression, the generated IR
\* transfers control to exactly one target: the case whose label equals the
\* value (by linear search of the label list), otherwise the default label if
\* present, otherwise the end of the switch.
C3_SwitchDispatch ==
    irpc = "done" => dispatched = <<SearchTarget(evaluateConstantExpr)>>

\* what the code does: the same, with every label that is not a literal taken as 0
C3_DispatchOnLiteralValue ==
    irpc = "done" => dispatched = <<SearchTarget(caseValue)>>

RECURSIVE RefValue(_)
RefValue(e) ==
    IF e[1] = "LogicalAnd" THEN (IF RefValue(e[2]) # 0 /\ RefValue(e[3]) # 0 THEN 1 ELSE 0)
    ELSE IF e[1] = "LogicalOr" THEN (IF RefValue(e[2]) # 0 \/ RefValue(e[3]) # 0 THEN 1 ELSE 0)
    ELSE leafValues[e[2]]

RECURSIVE Leaves(_)
Leaves(e) == IF e[1] = "CallExpr" THEN {e[2]} ELSE Leaves(e[2]) \cup Leaves(e[3])

\* the calls C's short-circuit rule evaluates
RECURSIVE Needed(_)
Needed(e) ==
    IF e[1] = "LogicalAnd"
    THEN Needed(e[2]) \cup (IF RefValue(e[2]) # 0 THEN Needed(e[3]) ELSE {})
    ELSE IF e[1] = "LogicalOr"
    THEN Needed(e[2]) \cup (IF RefValue(e[2]) = 0 THEN Needed(e[3]) ELSE {})
    ELSE {e[2]}

\* C4: for a && b and a || b, on every execution path of the generated IR the
\* quadruples that evaluate b run only when the value of a requires it (a
\* non-zero for &&, zero for ||); otherwise control jumps past all of b's
\* quadruples and the result temporary is set to 0 or 1 respectively.
C4_ShortCircuit ==
    /\ irpc \in {"run", "done"} => called \subseteq Needed(stmt)
    /\ irpc = "done" =>
         /\ called = Needed(stmt)
         /\ temps[resultOperand.v] = RefValue(stmt)

\* a && b has run with a zero: nothing of b was called and the result is 0
C4_AndSkippedRight ==
    /\ irpc = "done"
    /\ stmt[1] = "LogicalAnd"
    /\ RefValue(stmt[2]) = 0
    /\ Leaves(stmt[3]) \cap called = {}
    /\ temps[resultOperand.v] = 0

----------------------------------------------------------------------------
(* Claims about macro expansion *)

\* an activation of expandMacros running inside an activation with the same
\* line and the same forbidden set
NestedRepeat ==
    \E j, k \in 1..Len(mstack) :
        /\ j < k
        /\ mstack[j].line = mstack[k].line
        /\ mstack[j].forbidden = mstack[k].forbidden

\* C5: expanding any input line terminates, whatever cycles the macro
\* definitions contain, and with #define A A the line A expands to A.
\* expandMacros is a function of its line, its forbidden set and the macro
\* table alone, so an activation nested inside an activation with the same
\* line and forbidden set repeats it without end: termination requires that
\* no such activation ever exists.
C5_ExpansionTerminates ==
    /\ ~NestedRepeat
    /\ (mxpc = "done" /\ input = <<"A">> /\ macros_.A = ObjectLike(<<"A">>))
           => output = <<"A">>

\* The part of C5 that holds: a cycle of object-like macros (#define A A,
\* #define A B with #define B A) stops at the first forbidden name.
C5_ObjectCyclesStop ==
    (mxpc = "done" /\ input = <<"A">> /\ macros_.A = ObjectLike(<<"A">>))
        => output = <<"A">>

\* The activation stack reaches MaxDepth only in an expansion that repeats
\* an activation: the depth bound cuts no terminating expansion short.
C5_DepthOnlyByRepeat == Len(mstack) = MaxDepth => NestedRepeat

\* the tokens of a line that lie between an opening quote and its closing
\* quote, the quotes included
RECURSIVE LiteralText(_, _, _)
LiteralText(line, k, open) ==
    IF k > Len(line) THEN <<>>
    ELSE LET c == line[k]
         IN  IF open = "" THEN
                 IF c \in {"\"", "'"}
                 THEN <<c>> \o LiteralText(line, k + 1, c)
                 ELSE LiteralText(line, k + 1, "")
             ELSE <<c>> \o LiteralText(line, k + 1, IF c = open THEN "" ELSE open)

\* C11: text inside a string literal or a character literal is never
\* macro-expanded: whatever the macro table, the tokens between an opening
\* quote and its closing quote of the input line are the tokens between the
\* quotes of the expanded line.
C11_LiteralsNotExpanded ==
    mxpc = "done" => LiteralText(output, 1, "") = LiteralText(input, 1, "")

\* Outside literals the expansion does take place: a line whose only macro
\* name stands after a closed character literal has it replaced.
C11_ExpandedOutsideLiteral ==
    (mxpc = "done" /\ input = <<"'", "B", "'", "A">> /\ ~macros_.B.defined
        /\ macros_.A = ObjectLike(<<"1">>))
        => output = <<"'", "B", "'", "1">>

----------------------------------------------------------------------------
(* Claims about the parser *)

\* C6: on a syntax error the parser records the error and goes on to the end
\* of the input: every step of parseTranslationUnit or of a compound
\* statement that records an error consumes at least one token or has
\* reached EndOfFile, so parseTranslationUnit terminates.
C6_ErrorStepsConsume ==
    [][errors_' > errors_ => (pos' > pos \/ tokens[pos'] = "EndOfFile")]_vars

\* What does hold: a step that records no error consumes a token or leaves
\* a compound statement.
C6_CleanStepsProgress ==
    [][(pspc = "parse" /\ pspc' = "parse" /\ errors_' = errors_)
           => (pos' > pos \/ depth' < depth)]_vars

----------------------------------------------------------------------------
(* Claims about the preprocessor *)

\* a group nested in a group that is not active is not active
NestedInactive ==
    \A k \in 2..Len(conditionStack_) :
        ~conditionStack_[k - 1].active => ~conditionStack_[k].active

\* C7: while the top conditional frame is inactive only the conditional
\* directives are processed: a code line, a #define, an #undef, an #include
\* or any other directive read there leaves the output, the macro table,
\* the set of loaded files and the stack of open files as they are; and a
\* group nested inside an inactive group is never active.
C7_InactiveBranchSkipped ==
    [][/\ (/\ PpRunning
           /\ ~isCurrentBranchActive(conditionStack_)
           /\ lastLine'[1] \notin ConditionalDirectives \cup {"EOF"})
          => /\ UNCHANGED <<out, macros_, loadedFiles_, conditionStack_, processed>>
             /\ Len(fstack') = Len(fstack)
       /\ NestedInactive']_vars

\* #if 0, a nested group whose own condition never matched, and its #else:
\* the #else would activate the nested group were the parent active
C7_NestedElseInactive ==
    /\ pppc = "run"
    /\ Len(conditionStack_) = 2
    /\ lastLine = <<"else", "">>
    /\ ~conditionStack_[1].active
    /\ ~conditionStack_[2].hasMatched
    /\ ~conditionStack_[2].active

\* C8: preprocess never returns successfully with a non-empty conditional
\* stack: when it succeeds every #if, #ifdef and #ifndef processed, in the
\* root file or an included one, has been closed by an #endif.
C8_UnterminatedIsFatal ==
    pppc = "ok" => (conditionStack_ = <<>> /\ opened = closed)

\* a conditional opened in an included file and never closed
C8_FatalFromInclude ==
    /\ pppc = "fatal"
    /\ ppError = "Unterminated conditional directive"
    /\ Cardinality(loadedFiles_) = 2
    /\ opened > closed

\* C9: each file is processed at most once in a run; including a file that
\* is already loaded adds none of its lines, so files that include
\* themselves or each other are not read again.
C9_FileProcessedOnce == \A f \in Files : processed[f] <= 1

\* What does hold: a path, as spelled, is processed at most once.
C9_PathProcessedOnce ==
    processed["main.c"] + processed["a.h"] = Cardinality(loadedFiles_)

----------------------------------------------------------------------------
(* Claims about the include search path *)

IncResolved == incpc \in {"system", "quoted"}
\* the header is not found relative to the including file
NotInCurrentDir == incpc = "system" \/ "currentDir" \notin holders
StdlibDirs ==
    (IF stdlibEnv # "" /\ stdlibEnv \in existing THEN <<stdlibEnv>> ELSE <<>>)
        \o FirstExisting(StdlibCandidates, existing)

\* C10: when an include is not found relative to the including file, the
\* search visits the -I paths first, in command-line order, then the
\* CDD_INCLUDE_PATH entries, then the standard-library directory, then
\* /usr/local/include, then /usr/include; the first directory containing
\* the file wins.
C10_UserPathsFirst ==
    (IncResolved /\ NotInCurrentDir
         /\ FirstHolding(userPaths \o envPaths \o StdlibDirs \o SystemPaths, holders) # "")
        => resolved = FirstHolding(userPaths \o envPaths \o StdlibDirs \o SystemPaths,
                                   holders)

\* What does hold: the search visits the CDD_INCLUDE_PATH entries first,
\* then the standard-library directories, then the -I paths in command-line
\* order, then /usr/local/include, then /usr/include.
C10_UserPathsBeforeSystem ==
    (IncResolved /\ NotInCurrentDir
         /\ FirstHolding(envPaths \o StdlibDirs \o userPaths \o SystemPaths, holders) # "")
        => resolved = FirstHolding(envPaths \o StdlibDirs \o userPaths \o SystemPaths,
                                   holders)

\* reached: a header in a CDD_INCLUDE_PATH directory and in the first -I
\* directory is taken from the CDD_INCLUDE_PATH directory
C10_EnvWinsOverUser ==
    /\ IncResolved
    /\ Len(userPaths) = 2
    /\ envPaths # <<>>
    /\ holders = {userPaths[1], envPaths[1]}
    /\ resolved = envPaths[1]

----------------------------------------------------------------------------
(* Claims about the lexer *)

LastToken == lexTokens[Len(lexTokens)]
\* the automaton's state after the characters of a text
RECURSIVE StateAfter(_, _, _)
StateAfter(text, k, s) ==
    IF k > Len(text) THEN s ELSE StateAfter(text, k + 1, step(s, text[k]))
\* the lengths of the prefixes of a text that the automaton accepts
AcceptedPrefixes(text) ==
    {n \in 1..Len(text) : getFallbackState(StateAfter(SubSeq(text, 1, n), 1, "Start")) = "Done"}
\* scanToken has just returned because the automaton had no transition
StoppedWithoutTransition ==
    /\ lexTokens # <<>>
    /\ LastToken.kind # "EndOfFile"
    /\ dfaCurrent # "Done"

\* C12: when the automaton has no transition on the next character, the
\* token returned is the one of the longest accepted prefix of the characters
\* read, and the cursor stands right after that prefix, so that the
\* characters of the rejected extension are scanned again.
C12_LongestAcceptedPrefix ==
    (StoppedWithoutTransition /\ AcceptedPrefixes(lexeme_) # {})
        => LET n == CHOOSE m \in AcceptedPrefixes(lexeme_) :
                        \A j \in AcceptedPrefixes(lexeme_) : j <= m
           IN  /\ LastToken.kind # "Invalid"
               /\ LastToken.text = SubSeq(lexeme_, 1, n)
               /\ pos_ = tokenStart_ + n

\* The part of C12 that holds: when the automaton stops in a state that
\* accepts, the token is the whole of the characters read and none of them
\* is scanned again.
C12_AcceptingStopKeepsAll ==
    (StoppedWithoutTransition /\ getFallbackState(dfaCurrent) = "Done")
        => /\ LastToken.text = lexeme_
           /\ pos_ = tokenStart_ + Len(lexeme_)

\* the integer literals of the grammar: digits in one of the four forms and
\* a suffix [uU]? [lL]{0,2} in either order
IntSuffixes == {<<>>, <<"u">>, <<"l">>, <<"l", "l">>, <<"u", "l">>, <<"u", "l", "l">>,
                <<"l", "u">>, <<"l", "l", "u">>}
LiteralBase(digits) ==
    IF digits = <<>> THEN 0
    ELSE IF digits[1] = "1" /\ \A k \in 1..Len(digits) : isDigit(digits[k]) THEN 10
    ELSE IF Len(digits) > 2 /\ digits[1] = "0" /\ digits[2] = "x"
            /\ \A k \in 3..Len(digits) : isHexDigit(digits[k]) THEN 16
    ELSE IF Len(digits) > 2 /\ digits[1] = "0" /\ digits[2] = "b"
            /\ \A k \in 3..Len(digits) : isDigit(digits[k]) THEN 2
    ELSE IF digits[1] = "0" /\ \A k \in 1..Len(digits) : isDigit(digits[k]) THEN 8
    ELSE 0
\* the ways to read a text as digits followed by a suffix
LiteralReadings(text) ==
    {n \in 1..Len(text) :
        /\ LiteralBase(SubSeq(text, 1, n)) # 0
        /\ SubSeq(text, n + 1, Len(text)) \in IntSuffixes}
RECURSIVE NaturalValue(_, _, _)
NaturalValue(digits, base, acc) ==
    IF digits = <<>> THEN acc
    ELSE NaturalValue(Tail(digits), base,
                      acc * base + (CASE digits[1] = "1" -> 1 [] digits[1] = "b" -> 11
                                      [] digits[1] = "e" -> 14 [] OTHER -> 0))
LiteralValue(text) ==
    LET n == CHOOSE m \in LiteralReadings(text) : TRUE
        digits == SubSeq(text, 1, n)
        base == LiteralBase(digits)
    IN  NaturalValue(IF base \in {16, 2} THEN SubSeq(digits, 3, n) ELSE digits, base, 0)

\* C13: a source that is one integer literal, in any of the four bases and
\* with any suffix of the grammar, comes back as one IntLiteral token whose
\* value is the value of its digits in its own base.
C13_IntegerLiteralValue ==
    (lexTokens # <<>> /\ LiteralReadings(source_) # {})
        => /\ lexTokens[1].kind = "IntLiteral"
           /\ lexTokens[1].text = source_
           /\ lexTokens[1].intValue = LiteralValue(source_)

\* The part of C13 that holds: a literal without a suffix has the value of
\* its digits in its own base.
C13_UnsuffixedLiteralValue ==
    (lexTokens # <<>> /\ LiteralBase(source_) # 0)
        => /\ lexTokens[1].kind = "IntLiteral"
           /\ lexTokens[1].intValue = LiteralValue(source_)

\* the source is a block comment that is never closed
UnclosedBlockComment ==
    /\ Len(source_) >= 2
    /\ source_[1] = "/"
    /\ source_[2] = "*"
    /\ \A k \in 3..(Len(source_) - 1) : ~(source_[k] = "*" /\ source_[k + 1] = "/")

\* C14: after scanning an input that has an unclosed block comment, or for
\* which an Invalid token was returned, the lexer's error list is not empty.
C14_LexicalErrorsCollected ==
    (lxpc = "done" /\ (UnclosedBlockComment
                       \/ \E k \in 1..Len(lexTokens) : lexTokens[k].kind = "Invalid"))
        => lexErrors_ > 0

\* The part of C14 that holds: the lexer goes on after an Invalid token; the
\* cursor moves with every token, so the input is scanned up to EndOfFile.
C14_ScanningGoesOn ==
    [][lxpc = "scan" /\ lxpc' = "scan" => pos_' > pos_]_vars

----------------------------------------------------------------------------
(* Claims about the driver *)

\* C15: an input with a lexical, a syntactic or a semantic error never
\* reaches IR generation or code generation, and the driver, asked for the
\* IR or for assembly, exits with a non-zero code.
C15_ErrorsStopThePipeline ==
    (faults # {} /\ mode \in {"ir", "asm"})
        => /\ "ir" \notin phasesRun
           /\ "codegen" \notin phasesRun
           /\ drpc = "exit" => exitCode # 0

\* The part of C15 that holds: once a phase has a non-empty error list no
\* later phase runs and the exit code is not zero, and the parser runs
\* whatever the lexer found.
C15_ReportedErrorsStop ==
    /\ (parserErrors > 0 \/ semanticErrors > 0)
           => /\ "ir" \notin phasesRun
              /\ "codegen" \notin phasesRun
              /\ drpc = "exit" /\ exitCode # 0
    /\ parserErrors > 0 => "semantic" \notin phasesRun
    /\ ("lexer" \in phasesRun /\ mode # "lex") => "parser" \in phasesRun

----------------------------------------------------------------------------
(* Claims about break and continue *)

Encloses(kinds, where) == \E k \in 1..Len(where) : where[k] \in kinds

\* C16: for any nesting of loops and switch statements, continue is an error
\* exactly when no loop encloses it, and break is an error exactly when
\* neither a loop nor a switch encloses it.
C16_JumpErrorsExact ==
    /\ lastJump.kind = "continue"
           => (lastJump.error <=> ~Encloses({"while"}, lastJump.nest))
    /\ lastJump.kind = "break"
           => (lastJump.error <=> ~Encloses({"while", "switch"}, lastJump.nest))

\* a continue in a switch inside a loop was accepted
C16_ContinueInSwitchInLoop ==
    /\ lastJump.kind = "continue"
    /\ lastJump.nest = <<"while", "compound", "switch", "compound">>
    /\ ~lastJump.error

\* a continue in a switch with no loop around it was rejected, and a break at
\* the same place would be accepted
C16_ContinueInBareSwitch ==
    /\ lastJump.kind = "continue"
    /\ lastJump.nest = <<"switch", "compound">>
    /\ lastJump.error
    /\ ~breakOutside(loopDepth_, switchDepth_)

----------------------------------------------------------------------------
(* Claims about types *)

\* C17: type compatibility is reflexive and symmetric: every type is
\* compatible with itself, and two types are compatible in one order exactly
\* when they are in the other.
C17_CompatibleReflexiveSymmetric ==
    typc = "compared"
        => /\ compatible.first
           /\ compatible.second
           /\ compatible.forward = compatible.backward

\* void* against a pointer to a struct: compatible in both orders although
\* the pointees are not
C17_VoidPointerBothWays ==
    /\ typc = "compared"
    /\ t1 = PointerType(VoidType)
    /\ t2.kind = "Pointer"
    /\ t2.pointee[1].kind = "Struct"
    /\ compatible.forward
    /\ compatible.backward

\* the rule of the specification: each operand narrower than int becomes
\* int, then the wider kind is taken; unsigned if either is when the kinds
\* match, else the signedness of the wider kind
Promoted(t) ==
    IF KindOrder(IntegerKinds, t.intKind) < KindOrder(IntegerKinds, "Int")
    THEN IntegerType("Int", FALSE)
    ELSE t
PromotedCommon(a, b) ==
    LET pa == Promoted(a)
        pb == Promoted(b)
        ra == KindOrder(IntegerKinds, pa.intKind)
        rb == KindOrder(IntegerKinds, pb.intKind)
    IN  IF ra = rb THEN IntegerType(pa.intKind, pa.isUnsigned \/ pb.isUnsigned)
        ELSE IF ra > rb THEN pa
        ELSE pb

\* C18: the common type of two integer types is never narrower than int,
\* also when both operands have the same narrow type, and it is the type the
\* rule gives: promote to int first, then take the wider kind.
C18_CommonTypePromoted ==
    (typc = "common" /\ t1.kind = "Integer" /\ t2.kind = "Integer")
        => /\ KindOrder(IntegerKinds, commonType.intKind) >= KindOrder(IntegerKinds, "Int")
           /\ commonType = PromotedCommon(t1, t2)

\* The part of C18 that holds: the kind of the common type of two integer
\* types that differ is the wider of the two kinds and at least int.
C18_DifferentTypesAtLeastInt ==
    (typc = "common" /\ t1.kind = "Integer" /\ t2.kind = "Integer" /\ t1 # t2)
        => commonType.intKind = PromotedCommon(t1, t2).intKind

----------------------------------------------------------------------------
(* Claims about struct layout *)

\* the bytes a member takes as it is declared
RECURSIVE DeclaredSize(_)
DeclaredSize(astType) ==
    CASE astType.node = "BasicType" -> size(IntegerType(astType.kind, FALSE))
      [] astType.node = "ArrayType" ->
             DeclaredSize(astType.elementType[1]) * astType.length
      [] OTHER -> 0
\* the declared sizes of the members of a struct, those of its anonymous
\* fields in their place
RECURSIVE DeclaredSizes(_)
DeclaredSizes(fields) ==
    IF fields = <<>> THEN <<>>
    ELSE LET type == fields[1].type
         IN  (IF type.node = "RecordType"
              THEN [j \in 1..Len(type.fields) |-> DeclaredSize(type.fields[j].type)]
              ELSE <<DeclaredSize(type)>>)
             \o DeclaredSizes(Tail(fields))

Laid(members, sizes) ==
    /\ \A i \in 1..(Len(members) - 1) :
           members[i].offset + sizes[i] <= members[i + 1].offset
    /\ size(st) >= members[Len(members)].offset + sizes[Len(members)]
    /\ size(st) % alignment(st) = 0

\* C19: in every struct laid out, with or without anonymous struct or union
\* members, a member ends before the next begins, the struct is at least as
\* large as the end of its last member, and its size is a multiple of its
\* alignment.
C19_MembersDoNotOverlap ==
    rlpc = "done" => Laid(st.members, DeclaredSizes(recordFields))

\* The part of C19 that holds: a struct whose fields are chars, longs and
\* anonymous structs of them.
C19_ScalarMembersDoNotOverlap ==
    (rlpc = "done"
        /\ \A k \in 1..Len(recordFields) :
               /\ recordFields[k].type.node # "ArrayType"
               /\ ~recordFields[k].type.isUnion)
        => Laid(st.members, DeclaredSizes(recordFields))

----------------------------------------------------------------------------
(* Claims about the symbol table *)

\* the bytes of a symbol: from its offset, as many as its type is large
Bytes(a) == a.symbol.stackOffset .. (a.symbol.stackOffset + size(a.symbol.type) - 1)

OffsetByRule(a) ==
    a.symbol.stackOffset =
        -(alignUp(a.before, alignment(a.symbol.type)) + size(a.symbol.type))
Disjoint(S) ==
    \A i \in S, j \in S :
        (i # j /\ allocations[i].function = allocations[j].function)
            => Bytes(allocations[i]) \cap Bytes(allocations[j]) = {}

\* C20: every variable or parameter added inside a function scope, at any
\* block depth, gets a strictly negative offset, minus the function scope's
\* counter rounded up to the type's alignment plus the type's size, and the
\* bytes of two symbols of one function do not overlap.
C20_LocalOffsets ==
    /\ \A i \in DOMAIN allocations :
           allocations[i].symbol.stackOffset < 0 /\ OffsetByRule(allocations[i])
    /\ Disjoint(DOMAIN allocations)

\* The part of C20 that holds: the offset follows the rule and the bytes are
\* disjoint for every symbol, and the offset is negative for every symbol
\* whose type has a size.
C20_SizedLocalOffsets ==
    /\ \A i \in DOMAIN allocations :
           /\ OffsetByRule(allocations[i])
           /\ size(allocations[i].symbol.type) > 0
                 => allocations[i].symbol.stackOffset < 0
    /\ Disjoint(DOMAIN allocations)

\* a variable in a block inside a block of a function has been placed after
\* a parameter
C20_NestedBlockVariable ==
    \E i \in DOMAIN allocations, s \in DOMAIN allScopes_ :
        /\ i > 1
        /\ allocations[i].symbol \in allScopes_[s].symbols
        /\ allScopes_[s].kind = "Block"
        /\ allScopes_[allScopes_[s].parent].kind = "Block"

----------------------------------------------------------------------------
(* Claims about the branches of a conditional group *)

\* C24: in every conditional group, whatever #if, #ifdef, #ifndef, #elif and
\* #else directives it has seen at its level, a repeated #else and an #elif
\* after an #else included, at most one branch has been active.
C24_AtMostOneBranchActive ==
    \A k \in DOMAIN branches : branches[k] <= 1

\* The part of C24 that holds: once a group has matched, no later branch of
\* it is active.
C24_NoBranchAfterAMatch ==
    [][(/\ Len(conditionStack_') = Len(conditionStack_)
        /\ conditionStack_ # <<>>
        /\ conditionStack_' # conditionStack_
        /\ conditionStack_[Len(conditionStack_)].hasMatched)
          => ~conditionStack_'[Len(conditionStack_)].active]_vars

----------------------------------------------------------------------------
(* Claims about the labels and jumps of a function *)

LabelQuads(c) == {i \in 1..Len(c) : c[i].op = "Label"}
JumpQuads(c) == {i \in 1..Len(c) : c[i].op \in {"Jump", "JumpTrue", "JumpFalse"}}

\* C21: in the quadruples of one function no label is defined by two Label
\* quadruples, generated labels and the user's labels taken together.
C21_LabelsDefinedOnce ==
    \A i, j \in LabelQuads(gen.code) :
        i # j => gen.code[i].result # gen.code[j].result

\* The part of C21 that holds: no label made by newLabel is defined twice.
C21_GeneratedLabelsDefinedOnce ==
    \A i, j \in LabelQuads(gen.code) :
        (i # j /\ gen.code[i].result = gen.code[j].result)
            => gen.code[i].result \in UserLabels

\* C22: in a function that passed semantic analysis, the label every Jump,
\* JumpTrue and JumpFalse goes to is defined by a Label quadruple of the
\* function.
C22_JumpTargetsDefined ==
    sgpc = "done" =>
        \A i \in JumpQuads(gen.code) :
            \E j \in LabelQuads(gen.code) : gen.code[j].result = gen.code[i].result

\* The part of C22 that holds: the jumps to labels made by newLabel.
C22_GeneratedTargetsDefined ==
    sgpc = "done" =>
        \A i \in JumpQuads(gen.code) :
            gen.code[i].result.v # NoNumber =>
                \E j \in LabelQuads(gen.code) : gen.code[j].result = gen.code[i].result

\* the log read from entry k on, open being the loops and switches entered
\* and not left, the innermost last: a leave finds the stacks of its enter,
\* a break goes to the end label of the innermost of them, a continue to the
\* continue label of the innermost loop
RECURSIVE LogFollows(_, _, _)
LogFollows(log, k, open) ==
    IF k > Len(log) THEN TRUE
    ELSE LET e == log[k]
             loops == {i \in 1..Len(open) : open[i].kind \in LoopKinds}
             innerLoop == CHOOSE i \in loops : \A j \in loops : j <= i
         IN  CASE e.event = "enter" -> LogFollows(log, k + 1, Append(open, e))
               [] e.event = "leave" ->
                      /\ open # <<>>
                      /\ e.breakTargets = open[Len(open)].breakTargets
                      /\ e.continueTargets = open[Len(open)].continueTargets
                      /\ LogFollows(log, k + 1, SubSeq(open, 1, Len(open) - 1))
               [] e.kind = "BreakStmt" ->
                      /\ open # <<>>
                      /\ e.endLabel = open[Len(open)].endLabel
                      /\ LogFollows(log, k + 1, open)
               [] OTHER ->
                      /\ loops # {}
                      /\ e.continueLabel = open[innerLoop].continueLabel
                      /\ LogFollows(log, k + 1, open)

\* C29: for any nesting of loops and switches a break jumps to the end label
\* of the innermost loop or switch around it, a continue to the continue
\* label of the innermost loop around it, and the break and continue target
\* stacks are after every loop and switch what they were before it.
C29_JumpsToInnermost ==
    /\ LogFollows(gen.log, 1, <<>>)
    /\ gen.breakTargets_ = <<>>
    /\ gen.continueTargets_ = <<>>

\* a continue in a switch in a loop has been generated, and a break in a
\* loop in a switch
C29_ContinueThroughSwitch ==
    /\ sgpc = "done"
    /\ \E i, j \in 1..Len(gen.log) :
           /\ i + 1 < j
           /\ gen.log[i].kind \in LoopKinds /\ gen.log[i].event = "enter"
           /\ gen.log[i + 1].kind = "SwitchStmt" /\ gen.log[i + 1].event = "enter"
           /\ gen.log[i + 2].kind = "ContinueStmt"
           /\ gen.log[j].kind = "BreakStmt"

----------------------------------------------------------------------------
(* Claims about the float pool *)

\* C23: two constants get the same label exactly when their bit patterns are
\* equal, so 0.0 and -0.0 get different labels, and the mask of a float
\* negation has only the sign bit set whatever was emitted before it.
C23_PoolKeyedByBits ==
    /\ \A i, j \in 1..Len(labelsGiven) :
           (labelsGiven[i].label = labelsGiven[j].label)
               <=> sameBits(labelsGiven[i].value, labelsGiven[j].value)
    /\ (fppc = "done" /\ maskLabel # NoFloatLabel) =>
           \A k \in 1..Len(rodataSection_) :
               rodataSection_[k].label = maskLabel
                   => rodataSection_[k].quad = SignMask

\* The part of C23 that holds: constants with equal bits share a label, and
\* constants that differ in more than the sign of zero do not.
C23_PoolKeyedByValue ==
    \A i, j \in 1..Len(labelsGiven) :
        (labelsGiven[i].label = labelsGiven[j].label)
            <=> doubleEquals(labelsGiven[i].value, labelsGiven[j].value)

----------------------------------------------------------------------------
(* Claims about the stack pointer around a call sequence *)

AtCallEnd == Running /\ ip[1] = "caller" /\ Cur.op = "callend"

\* C30: for every emitted call sequence, with any number and mix of register
\* and stack arguments, what is added to rsp after the call is what was
\* subtracted and pushed before it, so rsp after the sequence is rsp before
\* it, and the pending parameter list is empty for the next call.
C30_RspRestoredAfterCall ==
    AtCallEnd => (rsp = rspAtCallSeq /\ callParams_ = <<>>)

\* a call sequence with an odd number of stack arguments, one of them a
\* float, has been executed to its end
C30_OddStackArgumentsCleaned ==
    /\ AtCallEnd
    /\ ExcessRank(Len(paramKinds)) % 2 = 1
    /\ \E k \in 1..Len(paramKinds) : ~InRegister(k) /\ paramKinds[k] = "float"

----------------------------------------------------------------------------
(* Claims about the stack slots of a function *)

\* C25: every slot handed out for a parameter, local variable or temporary
\* lies inside the frame the prologue reserves: none has an offset below
\* rbp - (40 + 1024), whatever the number and size of the locals and
\* temporaries.
C25_SlotsInsideFrame ==
    \A s \in slots : s.offset >= 0 - (CalleeSavedBytes + StackReserve)

\* The part of C25 that holds: the slots lie below the saved registers, are
\* 8-byte aligned and do not overlap each other.
C25_SlotsBelowSavedRegisters ==
    /\ \A s \in slots :
           /\ s.offset + s.size <= 0 - CalleeSavedBytes
           /\ s.offset % 8 = 0
    /\ \A s, t \in slots :
           s # t => (s.offset + s.size <= t.offset \/ t.offset + t.size <= s.offset)

----------------------------------------------------------------------------
(* Claims about register allocation *)

\* C27: after the translation of any quadruple, whatever its opcode and the
\* branch its routine took, every register the routine took from the
\* general-purpose or the XMM allocator is released again: both allocators
\* are all free between two quadruples, and inside a routine an allocation
\* always finds a free register.
C27_AllocatorsFreeBetweenQuads ==
    /\ rapc = "idle" =>
           /\ regAlloc_ = NewRegisterAllocator
           /\ xmmAlloc_ = NewXmmAllocator
    /\ rapc = "busy" =>
           \A v \in Locals : held[v] \notin {"rax", "xmm0", "xmm1"}

\* a float comparison, which takes two XMM registers and a general-purpose
\* register, is translated and a quadruple was translated before it
C27_FloatComparisonTranslated ==
    /\ rapc = "idle"
    /\ quadsDone = 2
    /\ quadNow.opcode = "FLt"

\* C26: at any point at most one value that is still needed is in RAX: an
\* operand loaded into RAX by the fallback, the dividend of idivq, the count
\* of XMM arguments before a call, the result of a call, a returned value.
C26_OneLiveValueInRax == Cardinality(raxLive) <= 1

\* the dividend is in RAX while both operands of the division are still in
\* their registers
C26_DividendInRax ==
    /\ rapc = "busy"
    /\ quadNow.opcode = "Div"
    /\ "dividend" \in raxLive
    /\ held["left"] \in NewRegisterAllocator.available_
    /\ held["right"] \in NewRegisterAllocator.available_
    /\ held["left"] \in regAlloc_.used_

----------------------------------------------------------------------------
(* Claims about the quadruples of a call *)

\* the operands of the arguments of the call, in source order, and the code
\* that computes them
ArgOperands == genArgs(stmt[3], NewGenerator)
ParamQuad(operand) ==
    [op |-> "Param", result |-> NoOperand, arg1 |-> operand, arg2 |-> NoOperand]
Generated == irpc = "run" /\ stmt \in CallExprs

\* C28: the quadruples of a call expression end with one Param per argument,
\* the first argument first, followed directly by the Call that carries the
\* number of arguments.
C28_ParamsInSourceOrder ==
    Generated =>
        LET n == Len(ArgOperands.operands)
            c == Len(code)
        IN  /\ code[c].op = "Call"
            /\ code[c].arg2 = IntConst(n)
            /\ \A i \in 1..n : code[c - n - 1 + i] = ParamQuad(ArgOperands.operands[i])

\* What holds instead: the Call carries the number of arguments, and the
\* Params follow the code of the arguments with the last argument first;
\* they precede the Call directly when the callee is a function's name.
C28_ParamsInReverseOrder ==
    Generated =>
        LET n == Len(ArgOperands.operands)
            c == Len(code)
            p == Len(ArgOperands.g.code)
        IN  /\ code[c].op = "Call"
            /\ code[c].arg2 = IntConst(n)
            /\ \A i \in 1..n : code[p + i] = ParamQuad(ArgOperands.operands[n + 1 - i])
            /\ stmt[2][1] = "IdentExpr" => c = p + n + 1

\* f(1, 2) is lowered
C28_TwoArgumentCall ==
    /\ Generated
    /\ stmt = <<"CallExpr", <<"IdentExpr", 3>>, <<<<"IntLiteral", 1>>, <<"IntLiteral", 2>>>>>>
    /\ code = <<ParamQuad(IntConst(2)), ParamQuad(IntConst(1)),
                [op |-> "Call", result |-> Tmp(0), arg1 |-> Lbl("f", 3), arg2 |-> IntConst(2)]>>

\* Between the Params of a call and its Call there is no Param of another
\* call: false when the callee is itself a call with arguments.
C28_NoForeignParamBeforeCall ==
    Generated /\ stmt[3] # <<>> =>
        LET n == Len(ArgOperands.operands)
            c == Len(code)
            p == Len(ArgOperands.g.code)
        IN  \A k \in (p + n + 1)..(c - 1) : code[k].op # "Param"

====
